---- MODULE Spec2Model ----
(***************************************************************************)
(* A model of chisel's Report (internal/slicer/report.go), of the          *)
(* manifestutil Report with Mutate and hard-link groups, and of the        *)
(* validation done by the manifest writer (manifestutil.Write).            *)
(*                                                                         *)
(* Go strings that are taken apart by the code (paths, globs) are          *)
(* sequences of one-character strings; strings that are only compared      *)
(* (hashes, link targets, names) are TLA+ strings, "" being Go's "".       *)
(* An fs.FileMode is the record of its bit fields: bits is the set of the  *)
(* mode bits above the permission bits that are set ("d" ModeDir, "L"      *)
(* ModeSymlink, "p" ModeNamedPipe, "t" ModeSticky, "u" ModeSetuid) and     *)
(* perm the nine permission bits as a number.                              *)
(***************************************************************************)
EXTENDS Integers, Sequences, FiniteSets, TLC

VARIABLES report, call, err, wall, ret

vars == <<report, call, err, wall, ret>>

\* The nil error.
Nil == "nil"

\* No manifest.wall has been written, and no value has been returned: ret
\* is the value the last call returned besides its error (a pointer is the
\* sequence of what it points to, the nil pointer and the empty map the
\* empty sequence).
NoWall == <<>>
NoResult == <<>>

---------------------------------------------------------------------------
(* Paths *)

Sep == "/"
Dot == <<".">>
DotDot == <<".", ".">>

\* The elements of a path: the non-empty runs of characters between separators.
RECURSIVE SplitAcc(_, _, _)
SplitAcc(s, cur, acc) ==
    IF s = <<>> THEN (IF cur = <<>> THEN acc ELSE Append(acc, cur))
    ELSE IF Head(s) = Sep
         THEN SplitAcc(Tail(s), <<>>, IF cur = <<>> THEN acc ELSE Append(acc, cur))
         ELSE SplitAcc(Tail(s), Append(cur, Head(s)), acc)

Split(path) == SplitAcc(path, <<>>, <<>>)

RECURSIVE Join(_)
Join(elems) ==
    IF elems = <<>> THEN <<>>
    ELSE IF Len(elems) = 1 THEN Head(elems)
    ELSE Head(elems) \o <<Sep>> \o Join(Tail(elems))

IsRooted(path) == path # <<>> /\ Head(path) = Sep

\* filepath.Clean's pass over the elements: "." is dropped, ".." removes the
\* element before it, is dropped at the root and is kept at the start of a
\* relative path.
RECURSIVE CleanElems(_, _, _)
CleanElems(elems, out, rooted) ==
    IF elems = <<>> THEN out
    ELSE LET e == Head(elems)
             rest == Tail(elems)
         IN IF e = Dot THEN CleanElems(rest, out, rooted)
            ELSE IF e = DotDot
                 THEN IF out # <<>> /\ out[Len(out)] # DotDot
                      THEN CleanElems(rest, SubSeq(out, 1, Len(out) - 1), rooted)
                      ELSE IF rooted THEN CleanElems(rest, out, rooted)
                           ELSE CleanElems(rest, Append(out, DotDot), rooted)
                 ELSE CleanElems(rest, Append(out, e), rooted)

\* filepath.Clean
Clean(path) ==
    LET elems == CleanElems(Split(path), <<>>, IsRooted(path))
    IN IF IsRooted(path) THEN <<Sep>> \o Join(elems)
       ELSE IF elems = <<>> THEN Dot ELSE Join(elems)

\* The length of the longest common prefix of two element lists.
RECURSIVE CommonLen(_, _)
CommonLen(a, b) ==
    IF a = <<>> \/ b = <<>> \/ Head(a) # Head(b) THEN 0
    ELSE 1 + CommonLen(Tail(a), Tail(b))

RECURSIVE Ups(_)
Ups(n) == IF n = 0 THEN <<>> ELSE <<DotDot>> \o Ups(n - 1)

\* filepath.Rel(base, targ): [err, path]. Both paths are cleaned; the result
\* is "." when they are equal; it fails when only one of the two is rooted,
\* and when base keeps a ".." that targ does not share; otherwise it is one
\* ".." for each element of base after the common prefix, then the rest of
\* targ.
Rel(base, targ) ==
    LET b == CleanElems(Split(base), <<>>, IsRooted(base))
        t == CleanElems(Split(targ), <<>>, IsRooted(targ))
        k == CommonLen(b, t)
    IN IF IsRooted(base) = IsRooted(targ) /\ b = t
       THEN [err |-> FALSE, path |-> Dot]
       ELSE IF IsRooted(base) # IsRooted(targ) THEN [err |-> TRUE, path |-> <<>>]
       ELSE IF k < Len(b) /\ b[k + 1] = DotDot THEN [err |-> TRUE, path |-> <<>>]
       ELSE [err |-> FALSE,
             path |-> Join(Ups(Len(b) - k) \o SubSeq(t, k + 1, Len(t)))]

\* strdist.GlobPath: "*" and "?" match inside one path element, "**" matches
\* across elements.
RECURSIVE GlobPath(_, _)
GlobPath(glob, path) ==
    IF glob = <<>> THEN path = <<>>
    ELSE IF Len(glob) >= 2 /\ glob[1] = "*" /\ glob[2] = "*"
         THEN \E k \in 0..Len(path) :
                 GlobPath(SubSeq(glob, 3, Len(glob)), SubSeq(path, k + 1, Len(path)))
    ELSE IF glob[1] = "*"
         THEN \E k \in 0..Len(path) :
                 /\ \A j \in 1..k : path[j] # Sep
                 /\ GlobPath(Tail(glob), SubSeq(path, k + 1, Len(path)))
    ELSE IF glob[1] = "?"
         THEN path # <<>> /\ path[1] # Sep /\ GlobPath(Tail(glob), Tail(path))
    ELSE path # <<>> /\ path[1] = glob[1] /\ GlobPath(Tail(glob), Tail(path))

---------------------------------------------------------------------------
(* Inputs *)

FileMode(bits, perm) == [bits |-> bits, perm |-> perm]

ModeDir == "d"
ModeSymlink == "L"
ModeNamedPipe == "p"
ModeSticky == "t"
ModeSetuid == "u"

\* fs.ModeType, of the bits modelled.
ModeType == {ModeDir, ModeSymlink, ModeNamedPipe}

\* setup.Slice values; String() joins package and name with "_" (neither
\* holds one).
oneSlice == [Package |-> "base-files", Name |-> "my-slice"]
otherSlice == [Package |-> "base-files", Name |-> "other-slice"]
Slices == {oneSlice, otherSlice}

Info(path, mode, hash, size, link) ==
    [Path |-> path, Mode |-> mode, Hash |-> hash, Size |-> size, Link |-> link]

RootPath == <<"/", "b", "/">>
FilePath == <<"/", "b", "/", "f">>
DirPath == <<"/", "b", "/", "d", "/">>
OutsidePath == <<"/", "f">>
PrefixPath == <<"/", "b", "f">>
RelativePath == <<"f">>

sampleFile == Info(FilePath, FileMode({}, 511), "h1", 5, "")
sampleDir == Info(DirPath, FileMode({ModeDir}, 428), "", 0, "")

\* The fsutil.Info values given to Add: a file, the same file with one field
\* changed, and paths that are not inside the root.
Infos ==
    { sampleFile,
      [sampleFile EXCEPT !.Mode = FileMode({}, 0)],
      [sampleFile EXCEPT !.Hash = "h2"],
      [sampleFile EXCEPT !.Size = 0],
      [sampleFile EXCEPT !.Link = "l"],
      Info(OutsidePath, FileMode({}, 0), "", 0, ""),
      Info(PrefixPath, FileMode({}, 0), "", 0, ""),
      Info(RelativePath, FileMode({}, 0), "", 0, "") }

\* The paths given to Mark and the globs given to MarkGlob.
MarkPaths == { <<"/", "f">>, <<"/", "f", "/">> }
MarkGlobs == { <<"/", "*", "*">> }

\* The number of globs MarkGlob may append.
MaxGlobs == 1

---------------------------------------------------------------------------
(* slicer.Report *)

\* NewReport
NewReport(root) ==
    [Root |-> root, Entries |-> <<>>, Marked |-> {}, MarkedGlob |-> <<>>]

\* Every path taken as marked.
IsMarkedAny(r, relPath) == TRUE

\* Whether the path is marked explicitly or matches a marked glob.
IsMarked(r, relPath) ==
    \/ relPath \in r.Marked
    \/ \E i \in 1..Len(r.MarkedGlob) : GlobPath(r.MarkedGlob[i], relPath)

\* The comparison without the hash.
ConflictsNoHash(info, entry) ==
    \/ info.Mode # entry.Mode
    \/ info.Link # entry.Link
    \/ info.Size # entry.Size

Conflicts(info, entry) ==
    \/ info.Mode # entry.Mode
    \/ info.Link # entry.Link
    \/ info.Size # entry.Size
    \/ info.Hash # entry.Hash

\* The slice set of an existing entry after one more Add.
AddSliceOverwrite(entry, slice) == [entry EXCEPT !.Slices = {slice}]

AddSlice(entry, slice) == [entry EXCEPT !.Slices = @ \cup {slice}]

NewEntry(relPath, slice, info) ==
    [Path |-> relPath, Mode |-> info.Mode, Hash |-> info.Hash,
     Size |-> info.Size, Slices |-> {slice}, Link |-> info.Link]

\* A map with one key set.
Put(m, k, v) == [x \in DOMAIN m \cup {k} |-> IF x = k THEN v ELSE m[x]]

\* Report.Add, were the entry of a conflicting Add stored before the error
\* is returned.
ReportAddOverwriting(r, slice, info) ==
    LET rel == Rel(r.Root, info.Path)
        relPath == <<Sep>> \o rel.path
    IN IF rel.err THEN [report |-> r, err |-> "outside"]
       ELSE IF ~IsMarked(r, relPath) THEN [report |-> r, err |-> Nil]
            ELSE IF relPath \in DOMAIN r.Entries /\ Conflicts(info, r.Entries[relPath])
                 THEN [report |-> [r EXCEPT !.Entries =
                                Put(@, relPath, NewEntry(relPath, slice, info))],
                       err |-> "conflict"]
                 ELSE [report |-> [r EXCEPT !.Entries =
                                Put(@, relPath,
                                    IF relPath \in DOMAIN r.Entries
                                    THEN AddSlice(r.Entries[relPath], slice)
                                    ELSE NewEntry(relPath, slice, info))],
                       err |-> Nil]

\* Report.Add: [report, err], the report after the call and the error returned.
ReportAdd(r, slice, info) ==
    LET rel == Rel(r.Root, info.Path)
        relPath == <<Sep>> \o rel.path
    IN IF rel.err THEN [report |-> r, err |-> "outside"]
       ELSE IF ~IsMarked(r, relPath) THEN [report |-> r, err |-> Nil]
            ELSE IF relPath \in DOMAIN r.Entries
                 THEN IF Conflicts(info, r.Entries[relPath])
                      THEN [report |-> r, err |-> "conflict"]
                      ELSE [report |-> [r EXCEPT !.Entries =
                                Put(@, relPath, AddSlice(r.Entries[relPath], slice))],
                            err |-> Nil]
                 ELSE [report |-> [r EXCEPT !.Entries =
                                Put(@, relPath, NewEntry(relPath, slice, info))],
                       err |-> Nil]

Add(slice, info) ==
    LET res == ReportAdd(report, slice, info)
    IN /\ report' = res.report
       /\ err' = res.err
       /\ call' = [op |-> "Add", slice |-> slice, info |-> info]
       /\ UNCHANGED <<wall, ret>>

\* Report.Mark
Mark(path) ==
    /\ report' = [report EXCEPT !.Marked = @ \cup {Clean(path)}]
    /\ err' = Nil
    /\ call' = [op |-> "Mark", path |-> path]
    /\ UNCHANGED <<wall, ret>>

\* Report.MarkGlob
MarkGlob(glob) ==
    /\ Len(report.MarkedGlob) < MaxGlobs
    /\ report' = [report EXCEPT !.MarkedGlob = Append(@, glob)]
    /\ err' = Nil
    /\ call' = [op |-> "MarkGlob", path |-> glob]
    /\ UNCHANGED <<wall, ret>>

Init ==
    /\ report = NewReport(RootPath)
    /\ call = [op |-> "NewReport"]
    /\ err = Nil
    /\ wall = NoWall
    /\ ret = NoResult

Next ==
    \/ \E slice \in Slices, info \in Infos : Add(slice, info)
    \/ \E path \in MarkPaths : Mark(path)
    \/ \E glob \in MarkGlobs : MarkGlob(glob)

Spec == Init /\ [][Next]_vars

---------------------------------------------------------------------------
(* slicer.Report as it tests the root as a string prefix (the variant of    *)
(* report.go without marks, with Filter).                                   *)

\* NewReport: the root is cleaned.
PrefixNewReport(root) == [Root |-> Clean(root), Entries |-> <<>>]

\* Report.Add: [report, err]. The path must begin with the characters of the
\* root; the rest, cleaned, is the key, with a separator after a directory.
PrefixReportAdd(r, slice, info) ==
    IF Len(info.Path) < Len(r.Root) \/ SubSeq(info.Path, 1, Len(r.Root)) # r.Root
    THEN [report |-> r, err |-> "outside"]
    ELSE LET rest == SubSeq(info.Path, Len(r.Root) + 1, Len(info.Path))
             cleaned == Clean(<<Sep>> \o rest)
             relPath == IF ModeDir \in info.Mode.bits THEN cleaned \o <<Sep>> ELSE cleaned
         IN IF relPath \in DOMAIN r.Entries
            THEN IF Conflicts(info, r.Entries[relPath])
                 THEN [report |-> r, err |-> "conflict"]
                 ELSE [report |-> [r EXCEPT !.Entries =
                           Put(@, relPath, AddSlice(r.Entries[relPath], slice))],
                       err |-> Nil]
            ELSE [report |-> [r EXCEPT !.Entries =
                      Put(@, relPath, NewEntry(relPath, slice, info))],
                  err |-> Nil]

PrefixAdd(slice, info) ==
    LET res == PrefixReportAdd(report, slice, info)
    IN /\ report' = res.report
       /\ err' = res.err
       /\ call' = [op |-> "Add", slice |-> slice, info |-> info]
       /\ UNCHANGED <<wall, ret>>

\* Report.Filter with the predicate "the entry is of the slice".
Filter(slice) ==
    /\ report' = [report EXCEPT !.Entries =
           [p \in {q \in DOMAIN @ : slice \in @[q].Slices} |-> @[p]]]
    /\ err' = Nil
    /\ call' = [op |-> "Filter", slice |-> slice]
    /\ UNCHANGED <<wall, ret>>

PrefixInit ==
    /\ report = PrefixNewReport(RootPath)
    /\ call = [op |-> "NewReport"]
    /\ err = Nil
    /\ wall = NoWall
    /\ ret = NoResult

PrefixNext ==
    \/ \E slice \in Slices, info \in Infos \cup {sampleDir} : PrefixAdd(slice, info)
    \/ \E slice \in Slices : Filter(slice)

SpecPrefix == PrefixInit /\ [][PrefixNext]_vars

---------------------------------------------------------------------------
(* manifestutil.Report: the Report with Mutate and hard-link groups. Link is *)
(* a path here (a hard link names its target by path), <<>> when empty.     *)

Entry(path, mode, sha256, size, link) ==
    [Path |-> path, Mode |-> mode, SHA256 |-> sha256, Size |-> size, Link |-> link]

LinkPath == <<"/", "b", "/", "l">>
HardLinkPath == <<"/", "b", "/", "h">>
AnotherFilePath == <<"/", "b", "/", "g">>
AnotherHardLinkPath == <<"/", "b", "/", "k">>

utilFile == Entry(FilePath, FileMode({}, 511), "h1", 5, <<>>)
utilDir == Entry(DirPath, FileMode({ModeDir}, 428), "", 0, <<>>)
utilSymlink == Entry(LinkPath, FileMode({ModeSymlink}, 511), "h1", 5, FilePath)
utilHardLink == Entry(HardLinkPath, FileMode({}, 511), "", 0, FilePath)
utilFileMutated == Entry(FilePath, FileMode({}, 0), "h1_changed", 15, <<>>)
anotherFile == Entry(AnotherFilePath, FileMode({}, 511), "h2", 5, <<>>)
anotherHardLink == Entry(AnotherHardLinkPath, FileMode({}, 511), "", 0, AnotherFilePath)

\* The (slice, entry) pairs given to Add.
SliceAndEntry ==
    { <<oneSlice, utilFile>>, <<otherSlice, utilFile>>,
      <<oneSlice, utilDir>>,
      <<oneSlice, utilSymlink>>,
      <<oneSlice, utilHardLink>>,
      <<otherSlice, anotherFile>>,
      <<otherSlice, anotherHardLink>>,
      <<oneSlice, Entry(OutsidePath, FileMode({}, 0), "", 0, <<>>)>>,
      <<oneSlice, Entry(PrefixPath, FileMode({}, 0), "", 0, <<>>)>> }

\* The entries given to Mutate.
MutateEntries ==
    { utilFileMutated, utilFile, utilDir,
      Entry(OutsidePath, FileMode({}, 0), "", 0, <<>>) }

IsDir(mode) == ModeDir \in mode.bits
IsRegular(mode) == mode.bits \cap ModeType = {}

\* NewReport: the root is cleaned and ends with the separator.
UtilNewReport(root) ==
    [Root |-> IF Clean(root) = <<Sep>> THEN <<Sep>> ELSE Clean(root) \o <<Sep>>,
     Entries |-> <<>>,
     lastInode |-> 0]

HasPrefix(s, prefix) ==
    Len(s) >= Len(prefix) /\ SubSeq(s, 1, Len(prefix)) = prefix

\* The rooted path of an absolute path relative to the root: [err, path].
\* A directory keeps its trailing separator.
SanitizeAbsPath(r, path, isDir) ==
    LET cleaned == Clean(path)
        full == IF isDir /\ cleaned # <<Sep>> THEN cleaned \o <<Sep>> ELSE cleaned
    IN IF ~HasPrefix(full, r.Root) THEN [err |-> TRUE, path |-> <<>>]
       ELSE [err |-> FALSE, path |-> SubSeq(full, Len(r.Root), Len(full))]

\* The group ID every hard-link group would get without counting groups.
LinkInodeFixed(r, target) == 1

\* The group ID of a hard link to target: target's group, or the next ID
\* when target is in no group yet.
LinkInode(r, target) ==
    IF target.Inode = 0 THEN r.lastInode + 1 ELSE target.Inode

UtilConflict(entry, stored) ==
    IF entry.Mode # stored.Mode THEN "diverging mode"
    ELSE IF entry.Link # stored.Link THEN "diverging link"
    ELSE IF entry.Size # stored.Size THEN "diverging size"
    ELSE IF entry.SHA256 # stored.SHA256 THEN "diverging hash"
    ELSE Nil

\* The Add of an entry whose hard-link target, if any, has been resolved:
\* inode is its group ID (0 for none).
UtilStore(r, relPath, slice, entry, inode) ==
    IF relPath \in DOMAIN r.Entries
    THEN IF UtilConflict(entry, r.Entries[relPath]) # Nil
         THEN [report |-> r, err |-> UtilConflict(entry, r.Entries[relPath])]
         ELSE [report |-> [r EXCEPT !.Entries =
                   Put(@, relPath, AddSlice(r.Entries[relPath], slice))],
               err |-> Nil]
    ELSE [report |-> [r EXCEPT !.Entries =
              Put(@, relPath,
                  [Path |-> relPath, Mode |-> entry.Mode, SHA256 |-> entry.SHA256,
                   Size |-> entry.Size, Slices |-> {slice}, Link |-> entry.Link,
                   FinalSHA256 |-> "", Inode |-> inode])],
          err |-> Nil]

\* Report.Add of manifestutil: [report, err]. A regular-file entry with a link
\* is a hard link: it takes the sha256, size and link of its target, and the
\* two share a group ID.
UtilReportAdd(r, slice, entry) ==
    LET rel == SanitizeAbsPath(r, entry.Path, IsDir(entry.Mode))
        relLink == SanitizeAbsPath(r, entry.Link, FALSE)
    IN IF rel.err THEN [report |-> r, err |-> "outside of root"]
       ELSE IF IsRegular(entry.Mode) /\ entry.Link # <<>>
       THEN IF relLink.err \/ relLink.path \notin DOMAIN r.Entries
            THEN [report |-> r, err |-> "target not previously added"]
            ELSE LET target == r.Entries[relLink.path]
                     inode == LinkInode(r, target)
                     grouped == [r EXCEPT
                         !.Entries = Put(@, relLink.path, [target EXCEPT !.Inode = inode]),
                         !.lastInode = IF target.Inode = 0 THEN @ + 1 ELSE @]
                     copy == [entry EXCEPT !.SHA256 = target.SHA256,
                                           !.Size = target.Size,
                                           !.Link = target.Link]
                 IN UtilStore(grouped, rel.path, slice, copy, inode)
       ELSE UtilStore(r, rel.path, slice, entry, 0)

\* Mutate that replaces the recorded hash.
UtilReportMutateOverwrite(r, entry) ==
    LET rel == SanitizeAbsPath(r, entry.Path, IsDir(entry.Mode))
    IN IF rel.err THEN [report |-> r, err |-> "outside of root"]
       ELSE IF rel.path \notin DOMAIN r.Entries
       THEN [report |-> r, err |-> "not previously added"]
       ELSE IF IsDir(r.Entries[rel.path].Mode)
       THEN [report |-> r, err |-> "is a directory"]
       ELSE [report |-> [r EXCEPT !.Entries[rel.path] =
                 [@ EXCEPT !.Size = entry.Size, !.SHA256 = entry.SHA256]],
             err |-> Nil]

\* Mutate without the check for a directory.
UtilReportMutateAnyType(r, entry) ==
    LET rel == SanitizeAbsPath(r, entry.Path, IsDir(entry.Mode))
    IN IF rel.err THEN [report |-> r, err |-> "outside of root"]
       ELSE IF rel.path \notin DOMAIN r.Entries
       THEN [report |-> r, err |-> "not previously added"]
       ELSE [report |-> [r EXCEPT !.Entries[rel.path] =
                 [@ EXCEPT !.Size = entry.Size,
                           !.FinalSHA256 =
                               IF entry.SHA256 # r.Entries[rel.path].SHA256
                               THEN entry.SHA256 ELSE @]],
             err |-> Nil]

\* Report.Mutate: [report, err]. The path must have been added and must not
\* be a directory; final_sha256 is set when the new hash differs from sha256.
UtilReportMutate(r, entry) ==
    LET rel == SanitizeAbsPath(r, entry.Path, IsDir(entry.Mode))
    IN IF rel.err THEN [report |-> r, err |-> "outside of root"]
       ELSE IF rel.path \notin DOMAIN r.Entries
       THEN [report |-> r, err |-> "not previously added"]
       ELSE IF IsDir(r.Entries[rel.path].Mode)
       THEN [report |-> r, err |-> "is a directory"]
       ELSE [report |-> [r EXCEPT !.Entries[rel.path] =
                 [@ EXCEPT !.Size = entry.Size,
                           !.FinalSHA256 =
                               IF entry.SHA256 # r.Entries[rel.path].SHA256
                               THEN entry.SHA256 ELSE @]],
             err |-> Nil]

UtilAdd(slice, entry) ==
    LET res == UtilReportAdd(report, slice, entry)
    IN /\ report' = res.report
       /\ err' = res.err
       /\ call' = [op |-> "Add", slice |-> slice, entry |-> entry]
       /\ UNCHANGED <<wall, ret>>

Mutate(entry) ==
    LET res == UtilReportMutate(report, entry)
    IN /\ report' = res.report
       /\ err' = res.err
       /\ call' = [op |-> "Mutate", entry |-> entry]
       /\ UNCHANGED <<wall, ret>>

UtilInit ==
    /\ report = UtilNewReport(RootPath)
    /\ call = [op |-> "NewReport"]
    /\ err = Nil
    /\ wall = NoWall
    /\ ret = NoResult

UtilNext ==
    \/ \E se \in SliceAndEntry : UtilAdd(se[1], se[2])
    \/ \E entry \in MutateEntries : Mutate(entry)

SpecManifestutil == UtilInit /\ [][UtilNext]_vars

---------------------------------------------------------------------------
(* manifestutil.Write: the validation of the WriteOptions. The Report given *)
(* to Write is any value of the type: its Entries field is exported.        *)

\* The largest hard-link group ID an entry of the options carries.
MaxInode == 2

\* Slice.String()
String(slice) == slice.Package \o "_" \o slice.Name

PackageInfo(name, version, sha256, arch) ==
    [Name |-> name, Version |-> version, SHA256 |-> sha256, Arch |-> arch]

basePackage == PackageInfo("base-files", "v1", "hp", "amd64")
otherPackage == PackageInfo("other", "v1", "ho", "amd64")

ReportEntry(mode, sha256, final, size, link, slices) ==
    [Mode |-> mode, SHA256 |-> sha256, FinalSHA256 |-> final, Size |-> size,
     Link |-> link, Slices |-> slices]

writeFile == ReportEntry(FileMode({}, 420), "h1", "", 5, <<>>, {oneSlice})

\* The entries a path of the options may hold, before path and group ID.
WriteEntries ==
    { writeFile,
      [writeFile EXCEPT !.Mode = FileMode({}, 384)],
      [writeFile EXCEPT !.Mode = FileMode({ModeSetuid}, 420)],
      [writeFile EXCEPT !.Mode = FileMode({ModeSticky}, 420)],
      [writeFile EXCEPT !.Mode = FileMode({ModeNamedPipe}, 420)],
      [writeFile EXCEPT !.SHA256 = "h2"],
      [writeFile EXCEPT !.FinalSHA256 = "h3"],
      [writeFile EXCEPT !.Size = 6],
      [writeFile EXCEPT !.Link = <<"t">>],
      [writeFile EXCEPT !.Slices = {}],
      [writeFile EXCEPT !.Slices = {oneSlice, otherSlice}],
      ReportEntry(FileMode({ModeDir}, 493), "", "", 0, <<>>, {oneSlice}),
      ReportEntry(FileMode({ModeDir}, 493), "h1", "", 0, <<>>, {oneSlice}),
      ReportEntry(FileMode({ModeSymlink}, 511), "", "", 0, <<"t">>, {oneSlice}),
      ReportEntry(FileMode({ModeSymlink}, 511), "", "", 0, <<>>, {oneSlice}),
      ReportEntry(FileMode({ModeDir}, 493), "", "h3", 0, <<>>, {oneSlice}),
      ReportEntry(FileMode({ModeSymlink}, 511), "", "", 5, <<"t">>, {oneSlice}) }

WritePaths == { <<"/", "a">>, <<"/", "b">>, <<"/", "c">> }

Absent == <<>>

\* What a path of the options holds: nothing, or an entry with a group ID.
\* The last path holds the plain file only.
WriteChoices(path) ==
    {Absent} \cup
    ((IF path = <<"/", "c">> THEN {writeFile} ELSE WriteEntries) \X (0..MaxInode))

\* The Report whose entries are the choices made for the paths.
MakeReport(choice) ==
    [Root |-> <<Sep>>,
     Entries |-> [p \in {q \in WritePaths : choice[q] # Absent} |->
                     [Path |-> p,
                      Mode |-> choice[p][1].Mode,
                      SHA256 |-> choice[p][1].SHA256,
                      Size |-> choice[p][1].Size,
                      Slices |-> choice[p][1].Slices,
                      Link |-> choice[p][1].Link,
                      FinalSHA256 |-> choice[p][1].FinalSHA256,
                      Inode |-> choice[p][2]]],
     lastInode |-> 0]

\* The packages, the selection and the writer given to Write with the report.
WriteInputs ==
    { [PackageInfo |-> <<basePackage>>, Selection |-> <<oneSlice, otherSlice>>, writer |-> "ok"],
      [PackageInfo |-> <<basePackage>>, Selection |-> <<oneSlice, otherSlice>>, writer |-> "fails"],
      [PackageInfo |-> <<basePackage, otherPackage>>, Selection |-> <<oneSlice>>, writer |-> "ok"],
      [PackageInfo |-> <<otherPackage>>, Selection |-> <<oneSlice, otherSlice>>, writer |-> "ok"],
      [PackageInfo |-> <<[basePackage EXCEPT !.Arch = ""]>>, Selection |-> <<oneSlice>>, writer |-> "ok"] }

\* unixPerm
unixPerm(mode) == mode.perm + (IF ModeSticky \in mode.bits THEN 512 ELSE 0)

\* validatePackage
validatePackage(pkg) ==
    IF pkg.Name = "" THEN "package name not set"
    ELSE IF pkg.Arch = "" THEN "package missing arch"
    ELSE IF pkg.SHA256 = "" THEN "package missing sha256"
    ELSE IF pkg.Version = "" THEN "package missing version"
    ELSE Nil

\* The check of an entry that accepts a symlink without a link.
validateReportEntryNoLink(entry) ==
    LET type == entry.Mode.bits \cap ModeType
        typeErr ==
            IF type = {} THEN Nil
            ELSE IF type = {ModeDir}
            THEN IF entry.Link # <<>> THEN "link set for directory"
                 ELSE IF entry.SHA256 # "" THEN "sha256 set for directory"
                 ELSE IF entry.FinalSHA256 # "" THEN "final_sha256 set for directory"
                 ELSE IF entry.Size # 0 THEN "size set for directory"
                 ELSE Nil
            ELSE IF type = {ModeSymlink}
            THEN IF entry.SHA256 # "" THEN "sha256 set for symlink"
                 ELSE IF entry.FinalSHA256 # "" THEN "final_sha256 set for symlink"
                 ELSE IF entry.Size # 0 THEN "size set for symlink"
                 ELSE Nil
            ELSE "unsupported file type"
    IN IF typeErr # Nil THEN typeErr
       ELSE IF entry.Slices = {} THEN "slices is empty"
       ELSE Nil

\* validateReportEntry
validateReportEntry(entry) ==
    LET type == entry.Mode.bits \cap ModeType
        typeErr ==
            IF type = {} THEN Nil
            ELSE IF type = {ModeDir}
            THEN IF entry.Link # <<>> THEN "link set for directory"
                 ELSE IF entry.SHA256 # "" THEN "sha256 set for directory"
                 ELSE IF entry.FinalSHA256 # "" THEN "final_sha256 set for directory"
                 ELSE IF entry.Size # 0 THEN "size set for directory"
                 ELSE Nil
            ELSE IF type = {ModeSymlink}
            THEN IF entry.Link = <<>> THEN "link not set for symlink"
                 ELSE IF entry.SHA256 # "" THEN "sha256 set for symlink"
                 ELSE IF entry.FinalSHA256 # "" THEN "final_sha256 set for symlink"
                 ELSE IF entry.Size # 0 THEN "size set for symlink"
                 ELSE Nil
            ELSE "unsupported file type"
    IN IF typeErr # Nil THEN typeErr
       ELSE IF entry.Slices = {} THEN "slices is empty"
       ELSE Nil

\* The first error of a sequence of results, Nil when there is none.
RECURSIVE FirstError(_)
FirstError(results) ==
    IF results = <<>> THEN Nil
    ELSE IF Head(results) # Nil THEN Head(results)
    ELSE FirstError(Tail(results))

\* The check of one entry without the look-up of its slices.
EntryErrorAnySlice(sliceExist, entry) == validateReportEntry(entry)

\* fastValidate's check of one entry: its fields, then its slices.
EntryError(sliceExist, entry) ==
    IF validateReportEntry(entry) # Nil THEN validateReportEntry(entry)
    ELSE IF \E slice \in entry.Slices : String(slice) \notin sliceExist
    THEN "refers to missing slice"
    ELSE Nil

\* The order of the characters of the paths.
Ord(c) == CASE c = "/" -> 47 [] c = "a" -> 97 [] c = "b" -> 98 [] c = "c" -> 99
            [] OTHER -> 127

\* The order of Go strings.
RECURSIVE Less(_, _)
Less(a, b) ==
    IF b = <<>> THEN FALSE
    ELSE IF a = <<>> THEN TRUE
    ELSE IF Head(a) # Head(b) THEN Ord(Head(a)) < Ord(Head(b))
    ELSE Less(Tail(a), Tail(b))

\* The comparison of two entries of a group without the size.
DivergingNoSize(e, e0) ==
    \/ e.Link # e0.Link
    \/ unixPerm(e.Mode) # unixPerm(e0.Mode)
    \/ e.SHA256 # e0.SHA256
    \/ e.FinalSHA256 # e0.FinalSHA256

\* Whether an entry of a hard-link group diverges from the group's first.
Diverging(e, e0) ==
    \/ e.Link # e0.Link
    \/ unixPerm(e.Mode) # unixPerm(e0.Mode)
    \/ e.SHA256 # e0.SHA256
    \/ e.Size # e0.Size
    \/ e.FinalSHA256 # e0.FinalSHA256

\* The check of a group that accepts a group of one path.
GroupErrorAnySize(entries, id) ==
    LET group == {e \in entries : e.Inode = id}
        e0 == CHOOSE e \in group : \A o \in group : o = e \/ Less(e.Path, o.Path)
    IN IF group = {} THEN "cannot find hard link id"
       ELSE IF \E e \in group : Diverging(e, e0)
       THEN "hard linked paths have diverging contents"
       ELSE Nil

\* fastValidate's check of the hard-link group id: it exists, has more than
\* one path, and no entry diverges from the one with the least path.
GroupError(entries, id) ==
    LET group == {e \in entries : e.Inode = id}
        e0 == CHOOSE e \in group : \A o \in group : o = e \/ Less(e.Path, o.Path)
    IN IF group = {} THEN "cannot find hard link id"
       ELSE IF Cardinality(group) = 1 THEN "hard link group has only one path"
       ELSE IF \E e \in group : Diverging(e, e0)
       THEN "hard linked paths have diverging contents"
       ELSE Nil

\* An error returned as an internal error only.
InternalError(e) == IF e = Nil THEN Nil ELSE "internal error: " \o e

\* The deferred function of fastValidate: an error is returned as an
\* internal invalid-manifest error.
InvalidManifest(e) ==
    IF e = Nil THEN Nil ELSE "internal error: invalid manifest: " \o e

\* fastValidate: the errors it may return, {Nil} when the options are valid.
\* The packages, the selection and the groups are checked in order; the
\* entries are checked in the order of a map iteration, so that any entry
\* with an error may be the one reported.
fastValidate(options) ==
    LET pkgErr == FirstError([i \in 1..Len(options.PackageInfo) |->
                                validatePackage(options.PackageInfo[i])])
        pkgExist == {options.PackageInfo[i].Name : i \in 1..Len(options.PackageInfo)}
        selErr == FirstError([i \in 1..Len(options.Selection) |->
                    IF options.Selection[i].Package \notin pkgExist
                    THEN "slice refers to missing package" ELSE Nil])
        sliceExist == {String(options.Selection[i]) : i \in 1..Len(options.Selection)}
        entries == {options.Report.Entries[p] : p \in DOMAIN options.Report.Entries}
        entryErrs == {EntryError(sliceExist, e) : e \in entries} \ {Nil}
        groups == {e.Inode : e \in entries} \ {0}
        groupErr == FirstError([id \in 1..Cardinality(groups) |-> GroupError(entries, id)])
    IN IF pkgErr # Nil THEN {InvalidManifest(pkgErr)}
       ELSE IF selErr # Nil THEN {InvalidManifest(selErr)}
       ELSE IF entryErrs # {} THEN {InvalidManifest(e) : e \in entryErrs}
       ELSE {InvalidManifest(groupErr)}

\* The names of packages and slices in the order of Go strings.
NameOrder ==
    << "base-files", "base-files_my-slice", "base-files_other-slice", "other",
       "other_my-slice" >>

NameRank(name) == CHOOSE i \in 1..Len(NameOrder) : NameOrder[i] = name

\* The elements of a set as the sequence ordered by less.
RECURSIVE SetToSeq(_)
SetToSeq(S) ==
    IF S = {} THEN <<>>
    ELSE LET x == CHOOSE x \in S : TRUE IN <<x>> \o SetToSeq(S \ {x})

\* sort.Strings of the names of a set.
SortNames(S) == SortSeq(SetToSeq(S), LAMBDA a, b : NameRank(a) < NameRank(b))

\* The concatenation of a sequence of sequences.
RECURSIVE Flatten(_)
Flatten(seqs) == IF seqs = <<>> THEN <<>> ELSE Head(seqs) \o Flatten(Tail(seqs))

\* fmt.Sprintf("%o", n)
OctalDigit(d) == <<"0", "1", "2", "3", "4", "5", "6", "7">>[d + 1]

RECURSIVE Octal(_)
Octal(n) == IF n < 8 THEN OctalDigit(n) ELSE Octal(n \div 8) \o OctalDigit(n % 8)

\* The records of the manifest are the JSON objects of the wall, named by
\* their JSON keys; a key left out by omitempty holds the zero value.
\* manifestAddPackages: the records added to the DBWriter.
manifestAddPackages(infos) ==
    [i \in 1..Len(infos) |->
        [kind |-> "package", name |-> infos[i].Name, version |-> infos[i].Version,
         sha256 |-> infos[i].SHA256, arch |-> infos[i].Arch]]

\* manifestAddSlices
manifestAddSlices(slices) ==
    [i \in 1..Len(slices) |-> [kind |-> "slice", name |-> String(slices[i])]]

NameLess(a, b) == NameRank(a) < NameRank(b)

PathLess(a, b) == Less(a.Path, b.Path)

\* The path record of an entry without its slices.
AddReportEntryNoSlices(entry) ==
    << [kind |-> "path", path |-> entry.Path,
        mode |-> "0" \o Octal(unixPerm(entry.Mode)),
        slices |-> <<>>, sha256 |-> entry.SHA256,
        final_sha256 |-> entry.FinalSHA256, size |-> entry.Size,
        link |-> entry.Link, inode |-> entry.Inode] >>

\* The records manifestAddReport adds for one entry: a content record for
\* each of its slices, then its path record with the sorted slice names.
AddReportEntry(entry) ==
    LET sliceNames == SortNames({String(slice) : slice \in entry.Slices})
    IN [i \in 1..Len(sliceNames) |->
           [kind |-> "content", slice |-> sliceNames[i], path |-> entry.Path]]
       \o << [kind |-> "path", path |-> entry.Path,
              mode |-> "0" \o Octal(unixPerm(entry.Mode)),
              slices |-> sliceNames, sha256 |-> entry.SHA256,
              final_sha256 |-> entry.FinalSHA256, size |-> entry.Size,
              link |-> entry.Link, inode |-> entry.Inode] >>

\* manifestAddReport: the entries are taken in the order of a map iteration,
\* which the sort of the wall makes irrelevant: they are taken by path.
manifestAddReport(r) ==
    LET entries == SortSeq(SetToSeq({r.Entries[p] : p \in DOMAIN r.Entries}), PathLess)
    IN Flatten([i \in 1..Len(entries) |-> AddReportEntry(entries[i])])

\* The order of the wall: the records as JSON text, which begins with the
\* kind and goes on with the name (package, slice), the slice and the path
\* (content) or the path (path).
KindRank(kind) == CASE kind = "content" -> 1 [] kind = "package" -> 2
                    [] kind = "path" -> 3 [] kind = "slice" -> 4

RecordLess(a, b) ==
    IF a.kind # b.kind THEN KindRank(a.kind) < KindRank(b.kind)
    ELSE IF a.kind = "content"
    THEN IF a.slice # b.slice THEN NameLess(a.slice, b.slice) ELSE Less(a.path, b.path)
    ELSE IF a.kind = "path" THEN Less(a.path, b.path)
    ELSE NameLess(a.name, b.name)

\* DBWriter.WriteTo: the header, then the records added, sorted.
WriteTo(records) ==
    << [jsonwall |-> "1.0", schema |-> "1.0", count |-> Len(records)] >>
    \o SortSeq(records, RecordLess)

\* The wall Write emits for valid options.
WriteWall(options) ==
    WriteTo(manifestAddPackages(options.PackageInfo)
            \o manifestAddSlices(options.Selection)
            \o manifestAddReport(options.Report))

\* Write: the errors it may return. Nothing is written unless fastValidate
\* accepts the options; writing fails when the writer does.
WriteResult(options) ==
    IF Nil \notin fastValidate(options) THEN fastValidate(options)
    ELSE IF options.writer = "fails" THEN {"write failed"}
    ELSE {Nil}

WriteOptions == [PackageInfo |-> call.PackageInfo, Selection |-> call.Selection,
                 Report |-> report, writer |-> call.writer]

\* Write. A writer that fails has taken any number of the first lines.
Write ==
    /\ call.op = "WriteOptions"
    /\ \E e \in WriteResult(WriteOptions) :
          /\ err' = e
          /\ IF e = Nil THEN wall' = WriteWall(WriteOptions)
             ELSE IF e = "write failed"
             THEN \E n \in 0..Len(WriteWall(WriteOptions)) :
                      wall' = SubSeq(WriteWall(WriteOptions), 1, n)
             ELSE wall' = wall
    /\ call' = [call EXCEPT !.op = "Write"]
    /\ UNCHANGED <<report, ret>>

WriteInit ==
    /\ \E a \in WriteChoices(<<"/", "a">>), b \in WriteChoices(<<"/", "b">>),
          c \in WriteChoices(<<"/", "c">>) :
          report = MakeReport(<<"/", "a">> :> a @@ <<"/", "b">> :> b @@ <<"/", "c">> :> c)
    /\ \E in \in WriteInputs :
          call = [op |-> "WriteOptions", PackageInfo |-> in.PackageInfo,
                  Selection |-> in.Selection, writer |-> in.writer]
    /\ err = Nil
    /\ wall = NoWall
    /\ ret = NoResult

WriteNext == Write

SpecWrite == WriteInit /\ [][WriteNext]_vars

---------------------------------------------------------------------------
(* manifest.ReadManifest and Validate: the reader of the manifest.wall.     *)

\* jsonwall.ReadDB: the records after the header; a file without header is
\* not a wall.
ReadDB(file) ==
    IF file = <<>> THEN [err |-> "cannot read", db |-> <<>>]
    ELSE [err |-> Nil, db |-> Tail(file)]

\* DB.Iterate with {"kind": kind}: the records of the kind, in their order.
Iterate(db, kind) == SelectSeq(db, LAMBDA rec : rec.kind = kind)

\* iter.Get: the JSON object as the Go struct of its kind. The Path struct
\* has no field for the inode key.
GetPath(rec) ==
    [Kind |-> rec.kind, Path |-> rec.path, Mode |-> rec.mode, Slices |-> rec.slices,
     Hash |-> rec.sha256, FinalHash |-> rec.final_sha256, Size |-> rec.size,
     Link |-> rec.link]

GetContent(rec) == [Kind |-> rec.kind, Slice |-> rec.slice, Path |-> rec.path]

GetPackage(rec) ==
    [Kind |-> rec.kind, Name |-> rec.name, Version |-> rec.version,
     Digest |-> rec.sha256, Arch |-> rec.arch]

GetSlice(rec) == [Kind |-> rec.kind, Name |-> rec.name]

\* The Manifest ReadManifest builds from the DB.
ManifestOf(db) ==
    [Paths |-> [i \in 1..Len(Iterate(db, "path")) |-> GetPath(Iterate(db, "path")[i])],
     Contents |-> [i \in 1..Len(Iterate(db, "content")) |->
                      GetContent(Iterate(db, "content")[i])],
     Packages |-> [i \in 1..Len(Iterate(db, "package")) |->
                      GetPackage(Iterate(db, "package")[i])],
     Slices |-> [i \in 1..Len(Iterate(db, "slice")) |-> GetSlice(Iterate(db, "slice")[i])]]

\* pathToSlices[path] of Validate: the slices of the contents of the path,
\* in the order of the contents; <<>> stands for no element of the map too,
\* which PathHasContent tells apart.
RECURSIVE PathToSlices(_, _)
PathToSlices(contents, path) ==
    IF contents = <<>> THEN <<>>
    ELSE (IF Head(contents).Path = path THEN <<Head(contents).Slice>> ELSE <<>>)
         \o PathToSlices(Tail(contents), path)

PathHasContent(contents, path) ==
    \E i \in 1..Len(contents) : contents[i].Path = path

\* Validate's loop over the contents without the look-up of the slice.
ContentErrorsAnySlice(manifest, sliceExist) ==
    [i \in 1..Len(manifest.Contents) |->
        IF manifest.Contents[i].Kind # "content" THEN "" ELSE Nil]

\* Validate's loop over the contents: the result for each.
ContentErrors(manifest, sliceExist) ==
    [i \in 1..Len(manifest.Contents) |->
        IF manifest.Contents[i].Kind # "content" THEN ""
        ELSE IF manifest.Contents[i].Slice \notin sliceExist THEN "TODO"
        ELSE Nil]

\* Validate's loop over the paths: slices.Equal compares the two lists
\* element by element.
PathErrors(manifest) ==
    [i \in 1..Len(manifest.Paths) |->
        IF manifest.Paths[i].Kind # "path" THEN ""
        ELSE IF ~PathHasContent(manifest.Contents, manifest.Paths[i].Path) THEN "TODO"
        ELSE IF PathToSlices(manifest.Contents, manifest.Paths[i].Path)
                    # manifest.Paths[i].Slices THEN "TODO"
        ELSE Nil]

\* The error the body of Validate returns: that of the first return
\* statement reached, Nil when none is.
ValidateBody(manifest) ==
    LET sliceExist == {manifest.Slices[i].Name : i \in 1..Len(manifest.Slices)}
    IN FirstError(
         [i \in 1..Len(manifest.Packages) |->
             IF manifest.Packages[i].Kind # "package" THEN "" ELSE Nil]
         \o [i \in 1..Len(manifest.Slices) |->
             IF manifest.Slices[i].Kind # "slice" THEN "" ELSE Nil]
         \o ContentErrors(manifest, sliceExist)
         \o PathErrors(manifest))

\* fmt.Errorf("invalid manifest: %s", err); a nil err is printed as
\* %!s(<nil>).
InvalidManifestError(e) ==
    "invalid manifest: " \o (IF e = Nil THEN "%!s(<nil>)" ELSE e)

\* Validate: the deferred function replaces whatever the body returns, the
\* nil error included.
Validate(manifest) == InvalidManifestError(ValidateBody(manifest))

\* ReadManifest: [manifest, err].
ReadManifestResult(file) ==
    IF ReadDB(file).err # Nil THEN [manifest |-> NoResult, err |-> ReadDB(file).err]
    ELSE IF Validate(ManifestOf(ReadDB(file).db)) # Nil
    THEN [manifest |-> NoResult, err |-> Validate(ManifestOf(ReadDB(file).db))]
    ELSE [manifest |-> <<ManifestOf(ReadDB(file).db)>>, err |-> Nil]

\* ReadManifest of the wall a successful Write has left, or of the wall
\* found in the root directory.
ReadManifest ==
    /\ \/ call.op = "ReadOptions"
       \/ call.op = "Write" /\ err = Nil
    /\ ret' = ReadManifestResult(wall).manifest
    /\ err' = ReadManifestResult(wall).err
    /\ call' = [call EXCEPT !.op = "ReadManifest"]
    /\ UNCHANGED <<report, wall>>

\* The records of the walls found in the root directory: two packages, a
\* slice of each, the contents of two paths and, for each path, no path
\* record or one with a list of slices.
ReadPackages ==
    { [kind |-> "package", name |-> "base-files", version |-> "v1", sha256 |-> "hp",
       arch |-> "amd64"],
      [kind |-> "package", name |-> "other", version |-> "v1", sha256 |-> "ho",
       arch |-> "amd64"] }

ReadSliceNames == {"base-files_my-slice", "other_my-slice"}

ReadSlices == {[kind |-> "slice", name |-> n] : n \in ReadSliceNames}

ReadPaths == { <<"/", "a">>, <<"/", "b">> }

ReadContents == {[kind |-> "content", slice |-> n, path |-> p] : n \in ReadSliceNames, p \in ReadPaths}

ReadSliceLists ==
    { <<>>, <<"base-files_my-slice">>, <<"other_my-slice">>,
      <<"base-files_my-slice", "other_my-slice">>,
      <<"other_my-slice", "base-files_my-slice">> }

ReadPathRecords(path) ==
    {[kind |-> "path", path |-> path, mode |-> "0644", slices |-> l, sha256 |-> "h1",
      final_sha256 |-> "", size |-> 5, link |-> <<>>, inode |-> 0] : l \in ReadSliceLists}

\* The choices of at most one element of a set.
AtMostOne(S) == {{}} \cup {{x} : x \in S}

ReadInit ==
    /\ \E packages \in SUBSET ReadPackages, slices \in SUBSET ReadSlices,
          contents \in SUBSET ReadContents,
          a \in AtMostOne(ReadPathRecords(<<"/", "a">>)),
          b \in AtMostOne(ReadPathRecords(<<"/", "b">>)) :
          wall = IF packages \cup slices \cup contents \cup a \cup b = {} THEN NoWall
                 ELSE WriteTo(SetToSeq(packages \cup slices \cup contents \cup a \cup b))
    /\ report = UtilNewReport(<<Sep>>)
    /\ call = [op |-> "ReadOptions"]
    /\ err = Nil
    /\ ret = NoResult

\* A manifest is written and read back, or one found is read.
ManifestInit == WriteInit \/ ReadInit

ManifestNext == Write \/ ReadManifest

SpecManifest == ManifestInit /\ [][ManifestNext]_vars

---------------------------------------------------------------------------
(* The path of the manifest of a "generate: manifest" glob: FindPaths of    *)
(* manifestutil, and LocateManifestSlices with getManifestPath (slicer) or  *)
(* GetManifestPath (manifest). A file name is one element of a path.        *)

\* setup.GenerateManifest, and no generate.
GenerateManifest == "manifest"
GenerateNone == ""

DefaultFilename == <<"manifest.wall">>
Filename == <<"manifest.wall">>
dbFile == <<"chisel.db">>

\* strings.TrimSuffix
TrimSuffix(str, suffix) ==
    IF Len(str) >= Len(suffix) /\ SubSeq(str, Len(str) - Len(suffix) + 1, Len(str)) = suffix
    THEN SubSeq(str, 1, Len(str) - Len(suffix))
    ELSE str

\* filepath.Join of a directory and a file name.
FilepathJoin(dir, file) ==
    IF dir = <<>> THEN Clean(file) ELSE Clean(dir \o <<Sep>> \o file)

\* The paths of a slice that are tagged generate: manifest.
ManifestGlobs(slice) ==
    {path \in DOMAIN slice.Contents : slice.Contents[path].Generate = GenerateManifest}

\* x, n times.
Repeat(x, n) == [i \in 1..n |-> x]

\* The manifest path FindPaths makes of a path.
FindPath(path) == FilepathJoin(TrimSuffix(path, <<"*", "*">>), DefaultFilename)

\* FindPaths: the map from the manifest paths to the slices that declare
\* them, each slice appended once for each of its paths.
FindPaths(slices) ==
    [mp \in {FindPath(path) : path \in UNION {ManifestGlobs(slices[i]) : i \in 1..Len(slices)}} |->
        Flatten([i \in 1..Len(slices) |->
            Repeat(slices[i],
                   Cardinality({path \in ManifestGlobs(slices[i]) : FindPath(path) = mp}))])]

\* LocateManifestSlices: the map from the tagged paths to their slices.
LocateManifestSlices(slices) ==
    [path \in UNION {ManifestGlobs(slices[i]) : i \in 1..Len(slices)} |->
        SelectSeq(slices, LAMBDA slice : path \in ManifestGlobs(slice))]

\* getManifestPath of slicer
getManifestPath(generatePath) ==
    FilepathJoin(Clean(TrimSuffix(generatePath, <<"*", "*">>)), dbFile)

\* GetManifestPath of manifest
GetManifestPath(generatePath) ==
    FilepathJoin(Clean(TrimSuffix(generatePath, <<"*", "*">>)), Filename)

\* The manifest paths made of the tagged paths, toPath being the manifest
\* path of each, with the slices of the paths they are made of.
ManifestPaths(manifestSlices, toPath) ==
    [mp \in {toPath[path] : path \in DOMAIN manifestSlices} |->
        Flatten(SetToSeq({manifestSlices[path] :
                             path \in {q \in DOMAIN manifestSlices : toPath[q] = mp}}))]

\* The contents a slice may declare: three globs, tagged or not, and a file.
GeneratePaths ==
    { <<"/", "*", "*">>, <<"/", "d", "/", "*", "*">>,
      <<"/", "d", "/", "e", "/", "*", "*">>, <<"/", "d", "/", "f">> }

GenerateContents ==
    { contents \in UNION {[paths -> {[Generate |-> GenerateManifest], [Generate |-> GenerateNone]}] :
                             paths \in SUBSET GeneratePaths} :
        <<"/", "d", "/", "f">> \in DOMAIN contents =>
            contents[<<"/", "d", "/", "f">>].Generate = GenerateNone }

\* The selections: one slice, or two slices of two packages.
GenerateSelections ==
    { << [Package |-> "base-files", Name |-> "my-slice", Contents |-> c] >> :
          c \in GenerateContents }
    \cup
    { << [Package |-> "base-files", Name |-> "my-slice", Contents |-> c],
         [Package |-> "other", Name |-> "my-slice", Contents |-> d] >> :
          c \in GenerateContents, d \in GenerateContents }

\* manifestutil.FindPaths(slices)
FindPathsCall ==
    /\ call.op = "Selection"
    /\ ret' = FindPaths(call.slices)
    /\ err' = Nil
    /\ call' = [call EXCEPT !.op = "FindPaths"]
    /\ UNCHANGED <<report, wall>>

\* generateDB's loop over options.ManifestSlices, the result of
\* LocateManifestSlices: the manifest paths and their slices.
GenerateDBPaths ==
    /\ call.op = "Selection"
    /\ ret' = ManifestPaths(LocateManifestSlices(call.slices),
                             [path \in DOMAIN LocateManifestSlices(call.slices) |->
                                 getManifestPath(path)])
    /\ err' = Nil
    /\ call' = [call EXCEPT !.op = "generateDB"]
    /\ UNCHANGED <<report, wall>>

\* LocateManifestSlices and GetManifestPath of the manifest package.
LocateManifestPaths ==
    /\ call.op = "Selection"
    /\ ret' = ManifestPaths(LocateManifestSlices(call.slices),
                             [path \in DOMAIN LocateManifestSlices(call.slices) |->
                                 GetManifestPath(path)])
    /\ err' = Nil
    /\ call' = [call EXCEPT !.op = "GetManifestPath"]
    /\ UNCHANGED <<report, wall>>

GenerateInit ==
    /\ \E slices \in GenerateSelections : call = [op |-> "Selection", slices |-> slices]
    /\ report = UtilNewReport(<<Sep>>)
    /\ err = Nil
    /\ wall = NoWall
    /\ ret = NoResult

GenerateNext == FindPathsCall \/ GenerateDBPaths \/ LocateManifestPaths

SpecGenerate == GenerateInit /\ [][GenerateNext]_vars

---------------------------------------------------------------------------
(* selectPkgArchives: the archive of each package, in the cut command       *)
(* (cmd_cut.go) and in its later form over the packages of the release.     *)
(* archives is the map of the archives that were opened, from their names   *)
(* to the packages they report to exist.                                    *)

\* The sequences over S of length n, and of length up to n.
SeqsOfLen(S, n) == [1..n -> S]
SeqsUpTo(S, n) == UNION {SeqsOfLen(S, k) : k \in 0..n}

\* The orders in which a map of keys S may be iterated.
Orders(S) ==
    {order \in SeqsOfLen(S, Cardinality(S)) :
        \A i, j \in DOMAIN order : i # j => order[i] # order[j]}

\* The candidate that comes first in the order, whatever its priority.
FirstVisited(release, candidates, order) ==
    order[CHOOSE i \in DOMAIN order :
              order[i] \in candidates /\ \A j \in 1..(i - 1) : order[j] \notin candidates]

\* The archive chosen among a non-empty set of candidates when the archives
\* of the release are visited in the given order (lines 130-139): a later
\* candidate replaces the chosen one only if its priority is higher.
Highest(release, candidates, order) ==
    order[CHOOSE i \in DOMAIN order :
              /\ order[i] \in candidates
              /\ \A j \in DOMAIN order :
                    order[j] \in candidates =>
                       \/ release.Archives[order[j]].Priority < release.Archives[order[i]].Priority
                       \/ /\ release.Archives[order[j]].Priority
                                = release.Archives[order[i]].Priority
                          /\ i <= j]

\* archive != nil && archive.Exists(pkg)
Exists(archives, name, pkg) == name \in DOMAIN archives /\ pkg \in archives[name]

\* The body of the loop of selectPkgArchives (cmd_cut.go) for one package,
\* with the order in which release.Archives is iterated: [archive, err].
SelectArchive(archives, release, pkg, order) ==
    IF pkg.Archive = ""
    THEN LET candidates == {a \in DOMAIN release.Archives : Exists(archives, a, pkg.Name)}
         IN IF candidates = {}
            THEN [archive |-> "", err |-> "slice package missing from archive(s)"]
            ELSE [archive |-> Highest(release, candidates, order), err |-> Nil]
    ELSE IF pkg.Archive \notin DOMAIN archives
    THEN [archive |-> "", err |-> "archive not defined"]
    ELSE IF pkg.Name \notin archives[pkg.Archive]
    THEN [archive |-> "", err |-> "slice package missing from archive"]
    ELSE [archive |-> pkg.Archive, err |-> Nil]

\* selectPkgArchives (cmd_cut.go) from a slice of the selection on:
\* [pkgArchives, err].
RECURSIVE SelectLoop(_, _, _, _, _)
SelectLoop(archives, release, slices, pkgArchives, order) ==
    IF slices = <<>> THEN [pkgArchives |-> pkgArchives, err |-> Nil]
    ELSE LET pkg == release.Packages[Head(slices).Package]
             res == SelectArchive(archives, release, pkg, order)
         IN IF pkg.Name \in DOMAIN pkgArchives
            THEN SelectLoop(archives, release, Tail(slices), pkgArchives, order)
            ELSE IF res.err # Nil
            THEN [pkgArchives |-> NoResult, err |-> res.err]
            ELSE SelectLoop(archives, release, Tail(slices),
                            pkgArchives @@ (pkg.Name :> res.archive), order)

\* selectPkgArchives(archives, selection) of cmd_cut.go, with the order in
\* which the map release.Archives is iterated.
selectPkgArchives(archives, selection, order) ==
    SelectLoop(archives, selection.Release, selection.Slices, <<>>, order)

\* The candidates of a package in selectPkgArchives of the later form: the
\* archives of non-negative priority, or the pinned archive alone.
Candidates(release, pkg) ==
    IF pkg.Archive = ""
    THEN {a \in DOMAIN release.Archives : release.Archives[a].Priority >= 0}
    ELSE {pkg.Archive}

\* The orders slices.SortFunc may leave the archives in: descending
\* priority, those of one priority in any order. sortedArchives is the part
\* of it with the archives of non-negative priority, which Candidates keeps.
SortedArchives(release) ==
    {sorted \in Orders(DOMAIN release.Archives) :
        \A i, j \in DOMAIN sorted :
            i < j => release.Archives[sorted[i]].Priority >= release.Archives[sorted[j]].Priority}

\* selectPkgArchives(archives, release) of the later form: the packages of
\* the release that exist in a candidate, with the first such candidate of
\* the sorted archives. It returns no error.
selectPkgArchivesRelease(archives, release, sorted) ==
    [name \in {n \in DOMAIN release.Packages :
                  \E a \in Candidates(release, release.Packages[n]) : Exists(archives, a, n)} |->
        FirstVisited(release, {a \in Candidates(release, release.Packages[name]) :
                                  Exists(archives, a, name)}, sorted)]

ArchiveNames == {"ubuntu", "fips", "esm"}
PackageNames == {"base-files", "other"}

\* The priorities of the archives of a release, which differ.
Priorities == {-1, 1, 2}

\* The releases: three archives of different priorities and two packages,
\* the first of which may pin an archive.
Releases ==
    { [Archives |-> [a \in ArchiveNames |-> [Name |-> a, Priority |-> prio[a]]],
       Packages |-> ("base-files" :> [Name |-> "base-files", Archive |-> pin]
                     @@ "other" :> [Name |-> "other", Archive |-> ""])] :
          prio \in {f \in [ArchiveNames -> Priorities] :
                       \A a, b \in ArchiveNames : a # b => f[a] # f[b]},
          pin \in {""} \cup ArchiveNames }

\* The archives that were opened, with the packages each holds.
OpenArchives ==
    UNION {[names -> SUBSET PackageNames] : names \in SUBSET ArchiveNames}

\* The slices of the selections.
SelectionSlices ==
    { <<oneSlice>>, <<oneSlice, otherSlice>>,
      <<oneSlice, [Package |-> "other", Name |-> "my-slice"]>>,
      <<[Package |-> "other", Name |-> "my-slice"], oneSlice>> }

\* selectPkgArchives(archives, selection) in cmdCut.Execute
SelectPkgArchivesCut ==
    /\ call.op = "Archives"
    /\ \E order \in Orders(DOMAIN call.release.Archives) :
          LET res == selectPkgArchives(call.archives,
                                       [Release |-> call.release, Slices |-> call.slices],
                                       order)
          IN ret' = res.pkgArchives /\ err' = res.err
    /\ call' = [call EXCEPT !.op = "selectPkgArchives"]
    /\ UNCHANGED <<report, wall>>

\* selectPkgArchives(archives, release) of the later form
SelectPkgArchivesRelease ==
    /\ call.op = "Archives"
    /\ \E sorted \in SortedArchives(call.release) :
          ret' = selectPkgArchivesRelease(call.archives, call.release, sorted)
    /\ err' = Nil
    /\ call' = [call EXCEPT !.op = "selectPkgArchivesRelease"]
    /\ UNCHANGED <<report, wall>>

ArchivesInit ==
    /\ \E release \in Releases, archives \in OpenArchives, slices \in SelectionSlices :
          call = [op |-> "Archives", release |-> release, archives |-> archives,
                  slices |-> slices]
    /\ report = UtilNewReport(<<Sep>>)
    /\ err = Nil
    /\ wall = NoWall
    /\ ret = NoResult

ArchivesNext == SelectPkgArchivesCut \/ SelectPkgArchivesRelease

SpecArchives == ArchivesInit /\ [][ArchivesNext]_vars

---------------------------------------------------------------------------
(* cmdCut.Execute (cmd_cut.go), step by step. call.pc is the position in    *)
(* Execute, call.events the calls it has made so far to setup.Select,       *)
(* archive.Open and slicer.Run, call.archives the map of opened archives.   *)

ErrExtraArgs == "too many arguments for command"
ErrCredentialsNotFound == "credentials not found"

\* The outcomes of lines 44-78: the arguments, the slice references and the
\* release.
SetupErrors == {Nil, ErrExtraArgs, "invalid slice reference", "invalid release reference"}

\* The outcomes of setup.Select: a selection, or one of its errors.
SelectErrors ==
    {Nil, "slices of package not found", "slice not found", "essential slice not found"}

\* The outcomes of archive.Open for the archives of the release.
OpenResults == [ArchiveNames -> {Nil, ErrCredentialsNotFound, "cannot talk to archive"}]

\* The packages the archives hold.
CutContents ==
    { [a \in ArchiveNames |-> PackageNames],
      [a \in ArchiveNames |-> {}],
      [a \in ArchiveNames |-> IF a = "ubuntu" THEN PackageNames
                              ELSE IF a = "esm" THEN {"other"} ELSE {}] }

\* The releases of the cut command.
CutReleases ==
    {r \in Releases : /\ r.Archives["ubuntu"].Priority = 1
                      /\ r.Packages["base-files"].Archive \in {"", "fips"}}

CutSlices == {<<oneSlice>>, <<oneSlice, [Package |-> "other", Name |-> "my-slice"]>>}

\* Where Execute goes on after setup.Select returned e, were the error not
\* looked at.
AfterSelectContinue(e) == "open"

\* Where Execute goes on after setup.Select returned e (lines 80-83).
AfterSelect(e) == IF e # Nil THEN "done" ELSE "open"

\* Lines 44-78: the arguments, the slice keys, the release.
ExecuteSetup ==
    /\ call.op = "Execute" /\ call.pc = "start"
    /\ err' = call.setupErr
    /\ call' = [call EXCEPT !.pc = IF call.setupErr # Nil THEN "done" ELSE "select"]
    /\ UNCHANGED <<report, wall, ret>>

\* Lines 80-83: setup.Select(release, sliceKeys)
ExecuteSelect ==
    /\ call.op = "Execute" /\ call.pc = "select"
    /\ err' = call.selectErr
    /\ call' = [call EXCEPT !.pc = AfterSelect(call.selectErr),
                            !.events = Append(@, <<"Select">>)]
    /\ UNCHANGED <<report, wall, ret>>

\* Lines 86-105: one turn of the loop over release.Archives, in the order
\* the map gives them.
ExecuteOpen ==
    /\ call.op = "Execute" /\ call.pc = "open"
    /\ \E archiveName \in DOMAIN call.release.Archives \ call.visited :
          LET openErr == call.opens[archiveName]
          IN /\ err' = IF openErr = ErrCredentialsNotFound THEN Nil ELSE openErr
             /\ call' = [call EXCEPT
                   !.pc = IF openErr \in {Nil, ErrCredentialsNotFound} THEN "open" ELSE "done",
                   !.visited = @ \cup {archiveName},
                   !.events = Append(@, <<"Open", archiveName>>),
                   !.archives = IF openErr = Nil
                                THEN @ @@ (archiveName :> call.contents[archiveName])
                                ELSE @]
    /\ UNCHANGED <<report, wall, ret>>

\* Lines 107-110: selectPkgArchives(archives, selection), once the loop over
\* release.Archives is over.
ExecuteSelectPkgArchives ==
    /\ call.op = "Execute" /\ call.pc = "open"
    /\ call.visited = DOMAIN call.release.Archives
    /\ \E order \in Orders(DOMAIN call.release.Archives) :
          LET res == selectPkgArchives(call.archives,
                                       [Release |-> call.release, Slices |-> call.slices],
                                       order)
          IN /\ err' = res.err
             /\ ret' = res.pkgArchives
             /\ call' = [call EXCEPT !.pc = IF res.err # Nil THEN "done" ELSE "run"]
    /\ UNCHANGED <<report, wall>>

\* Lines 112-117: slicer.Run, which fetches and extracts the packages.
ExecuteRun ==
    /\ call.op = "Execute" /\ call.pc = "run"
    /\ \E runErr \in {Nil, "cannot extract"} : err' = runErr
    /\ call' = [call EXCEPT !.pc = "done", !.events = Append(@, <<"Run">>)]
    /\ UNCHANGED <<report, wall, ret>>

CutInit ==
    /\ \E setupErr \in SetupErrors, selectErr \in SelectErrors, opens \in OpenResults,
          contents \in CutContents, release \in CutReleases, slices \in CutSlices :
          call = [op |-> "Execute", pc |-> "start", setupErr |-> setupErr,
                  selectErr |-> selectErr, opens |-> opens, contents |-> contents,
                  release |-> release, slices |-> slices, visited |-> {},
                  events |-> <<>>, archives |-> <<>>]
    /\ report = UtilNewReport(<<Sep>>)
    /\ err = Nil
    /\ wall = NoWall
    /\ ret = NoResult

CutNext ==
    ExecuteSetup \/ ExecuteSelect \/ ExecuteOpen \/ ExecuteSelectPkgArchives \/ ExecuteRun

SpecCut == CutInit /\ [][CutNext]_vars

---------------------------------------------------------------------------
(* check-cohesion: cmdDebugCohesion.Execute and sanitizeTarPath              *)
(* (cmd_debug_cohesion.go). A tar header is its name, mode and link name;   *)
(* a name is the sequence of its characters.                                *)

\* The longest tar path sanitizeTarPath is given on its own.
MaxTarPath == 5

\* sanitizeTarPath(path): [path, ok]
sanitizeTarPath(path) ==
    IF Len(path) < 3 \/ path[1] # "." \/ path[2] # "/"
    THEN [path |-> <<>>, ok |-> FALSE]
    ELSE [path |-> Tail(path), ok |-> TRUE]

TarHeader(name, mode, linkname) == [Name |-> name, Mode |-> mode, Linkname |-> linkname]

\* testutil.Dir, testutil.Reg and testutil.Lnk
Dir(mode, path) == TarHeader(path, mode, <<>>)
Reg(mode, path) == TarHeader(path, mode, <<>>)
Lnk(mode, path, target) == TarHeader(path, mode, target)

\* The first ownership with the link name of the header, were the modes not
\* compared.
FindOwnershipAnyMode(data, header) ==
    LET same == {i \in 1..Len(data) : header.Linkname = data[i].Link}
    IN IF same = {} THEN 0 ELSE CHOOSE i \in same : \A j \in same : i <= j

\* The first ownership of data that has the link name of the header, should
\* it have one, and its mode otherwise (lines 98-114); 0 if there is none.
FindOwnership(data, header) ==
    LET same == {i \in 1..Len(data) :
                    IF header.Linkname # <<>>
                    THEN header.Linkname = data[i].Link
                    ELSE header.Mode = data[i].Mode}
    IN IF same = {} THEN 0 ELSE CHOOSE i \in same : \A j \in same : i <= j

\* Lines 93-122: the ownerships of a path after a header of the package was
\* read for it.
AddOwnership(data, header, archiveName, pkgName) ==
    LET i == FindOwnership(data, header)
    IN IF i = 0
       THEN Append(data, [Mode |-> header.Mode, Link |-> header.Linkname,
                          Pkgs |-> (archiveName :> <<pkgName>>)])
       ELSE [data EXCEPT ![i].Pkgs =
                IF archiveName \in DOMAIN @
                THEN [@ EXCEPT ![archiveName] = Append(@, pkgName)]
                ELSE @ @@ (archiveName :> <<pkgName>>)]

\* The path a header is recorded under (lines 82-91): [path, ok].
OwnedPath(header) ==
    LET res == sanitizeTarPath(header.Name)
    IN IF ~res.ok THEN res
       ELSE IF res.path[Len(res.path)] = "/"
       THEN [path |-> SubSeq(res.path, 1, Len(res.path) - 1), ok |-> TRUE]
       ELSE res

\* Lines 73-123: the headers of the tar of a package, one after the other.
RECURSIVE ReadTar(_, _, _, _)
ReadTar(directories, headers, archiveName, pkgName) ==
    IF headers = <<>> THEN directories
    ELSE LET header == Head(headers)
             path == OwnedPath(header).path
             data == IF path \in DOMAIN directories THEN directories[path] ELSE <<>>
         IN IF ~OwnedPath(header).ok
            THEN ReadTar(directories, Tail(headers), archiveName, pkgName)
            ELSE ReadTar(Put(directories, path,
                             AddOwnership(data, header, archiveName, pkgName)),
                         Tail(headers), archiveName, pkgName)

\* Lines 60-124: the packages of the release, in the order pkgNames, looked
\* up in one archive: [directories, err].
RECURSIVE ReadPackageTars(_, _, _, _, _)
ReadPackageTars(directories, archive, archiveName, pkgNames, broken) ==
    IF pkgNames = <<>> THEN [directories |-> directories, err |-> Nil]
    ELSE IF Head(pkgNames) \notin DOMAIN archive
    THEN ReadPackageTars(directories, archive, archiveName, Tail(pkgNames), broken)
    ELSE IF Head(pkgNames) \in broken
    THEN [directories |-> directories, err |-> "cannot fetch package"]
    ELSE ReadPackageTars(ReadTar(directories, archive[Head(pkgNames)], archiveName,
                              Head(pkgNames)),
                      archive, archiveName, Tail(pkgNames), broken)

\* Lines 57-125: the opened archives in the order archiveNames, each with
\* its own order of the packages: [directories, err].
RECURSIVE ReadArchives(_, _, _, _, _)
ReadArchives(directories, archives, archiveNames, pkgOrder, broken) ==
    IF archiveNames = <<>> THEN [directories |-> directories, err |-> Nil]
    ELSE LET archiveName == Head(archiveNames)
             res == ReadPackageTars(directories, archives[archiveName], archiveName,
                                 pkgOrder[archiveName], broken)
         IN IF res.err # Nil THEN res
            ELSE ReadArchives(res.directories, archives, Tail(archiveNames), pkgOrder, broken)

\* Lines 127-132: the paths with more than one ownership.
Problematic(directories) ==
    [dir \in {d \in DOMAIN directories : Len(directories[d]) > 1} |-> directories[dir]]

\* Lines 28-48: the archives that were opened, with the tars of their
\* packages, and the error that ends the loop if there is one.
OpenedArchives(opens, holds, tars) ==
    [a \in {n \in DOMAIN opens : opens[n] = Nil} |-> [p \in holds[a] |-> tars[p]]]

OpenError(opens) ==
    IF \E a \in DOMAIN opens : opens[a] \notin {Nil, ErrCredentialsNotFound}
    THEN "cannot talk to archive" ELSE Nil

CohesionArchives == {"archive1", "archive2"}
CohesionPackages == {"pkg-a", "pkg-b"}

DirName == <<".", "/", "d", "/">>
LnkName == <<".", "/", "d">>
FileName == <<".", "/", "d", "/", "f">>
OtherTarget == <<"/", "o">>

\* The tars of the packages: those of cohesionTests, and some more.
Tars ==
    { <<Dir(493, DirName)>>,
      <<Dir(494, DirName)>>,
      <<Dir(511, DirName)>>,
      <<Lnk(511, LnkName, OtherTarget)>>,
      <<Dir(493, DirName), Reg(420, FileName)>>,
      <<Dir(494, DirName), Reg(420, FileName), Dir(493, <<"d", "/">>)>>,
      <<Reg(493, LnkName), Reg(416, FileName)>> }

\* cmdDebugCohesion.Execute, for an order of the opened archives and, for
\* each, an order of the packages of the release.
CohesionExecute ==
    /\ call.op = "Cohesion"
    /\ LET archives == OpenedArchives(call.opens, call.holds, call.tars)
       IN \E archiveNames \in Orders(DOMAIN archives),
             pkgOrder \in [DOMAIN archives -> Orders(CohesionPackages)] :
             LET res == ReadArchives(<<>>, archives, archiveNames, pkgOrder, call.broken)
             IN IF OpenError(call.opens) # Nil
                THEN err' = OpenError(call.opens) /\ ret' = NoResult
                ELSE IF res.err # Nil
                THEN err' = res.err /\ ret' = NoResult
                ELSE err' = Nil /\ ret' = Problematic(res.directories)
    /\ call' = [call EXCEPT !.op = "check-cohesion"]
    /\ UNCHANGED <<report, wall>>

\* sanitizeTarPath(path) on its own
SanitizeTarPath ==
    /\ call.op = "TarPath"
    /\ ret' = sanitizeTarPath(call.path)
    /\ err' = Nil
    /\ call' = [call EXCEPT !.op = "sanitizeTarPath"]
    /\ UNCHANGED <<report, wall>>

CohesionInit ==
    /\ \/ \E opens \in [CohesionArchives -> {Nil, ErrCredentialsNotFound, "cannot talk to archive"}],
             holds \in [CohesionArchives -> SUBSET CohesionPackages],
             tars \in [CohesionPackages -> Tars],
             broken \in {{}, {"pkg-b"}} :
             call = [op |-> "Cohesion", opens |-> opens, holds |-> holds, tars |-> tars,
                     broken |-> broken]
       \/ \E path \in SeqsUpTo({".", "/", "d"}, MaxTarPath) :
             call = [op |-> "TarPath", path |-> path]
    /\ report = UtilNewReport(<<Sep>>)
    /\ err = Nil
    /\ wall = NoWall
    /\ ret = NoResult

CohesionNext == CohesionExecute \/ SanitizeTarPath

SpecCohesion == CohesionInit /\ [][CohesionNext]_vars

---------------------------------------------------------------------------
(* The archive client: Fetch of a package that several suites and           *)
(* components of the opened archive hold. An index is the package list of   *)
(* one (suite, component); a candidate is the stanza of the package in one  *)
(* index.                                                                   *)

SuiteNames == {"jammy", "jammy-updates", "jammy-security"}
Components == <<"main", "universe">>

\* The priority of a suite: security over updates over the base suite.
SuitePriority(suite) ==
    IF suite = "jammy-security" THEN 2 ELSE IF suite = "jammy-updates" THEN 1 ELSE 0

\* The payload of the package in the index of a suite and a component, and
\* its digest.
PackageData(suite, component, pkg) == <<"package", pkg, "from", suite, component>>
Sha256(data) == <<"sha256">> \o data

\* The stanza of a package in the index of suite and component, with the
\* priority of the suite and the ordinal of the component.
Candidate(suite, ordinal, pkg) ==
    [Name |-> pkg, Version |-> <<"1.1", suite, Components[ordinal]>>, Arch |-> "amd64",
     SHA256 |-> Sha256(PackageData(suite, Components[ordinal], pkg)),
     Filename |-> <<suite, Components[ordinal], pkg>>,
     Priority |-> SuitePriority(suite), Ordinal |-> ordinal]

\* The candidates of a package in the indexes of the configured suites.
CandidatesOf(suites, holds, pkg) ==
    {Candidate(suites[i], ordinal, pkg) :
        <<i, ordinal>> \in {x \in (1..Len(suites)) \X (1..Len(Components)) :
                               pkg \in holds[<<suites[x[1]], Components[x[2]]>>]}}

\* The candidate of the suite listed first, whatever its priority.
SelectFirstListed(suites, holds, pkg) ==
    CHOOSE c \in CandidatesOf(suites, holds, pkg) :
        \A d \in CandidatesOf(suites, holds, pkg) :
            \/ \E i, j \in 1..Len(suites) :
                  c.Filename[1] = suites[i] /\ d.Filename[1] = suites[j] /\ i < j
            \/ c.Filename[1] = d.Filename[1] /\ c.Ordinal <= d.Ordinal

\* The package selection rule: the highest-priority suite and, within it,
\* the earliest-listed component.
SelectCandidate(suites, holds, pkg) ==
    CHOOSE c \in CandidatesOf(suites, holds, pkg) :
        \A d \in CandidatesOf(suites, holds, pkg) :
            \/ c.Priority > d.Priority
            \/ c.Priority = d.Priority /\ c.Ordinal <= d.Ordinal

\* The download of a file of the archive.
Download(filename) == PackageData(filename[1], filename[2], filename[3])

\* Fetch(pkg): [data, info, err]; the payload is checked against the digest
\* of the index.
FetchResult(suites, holds, pkg) ==
    IF CandidatesOf(suites, holds, pkg) = {}
    THEN [data |-> <<>>, info |-> <<>>, err |-> "cannot find package in archive"]
    ELSE LET c == SelectCandidate(suites, holds, pkg)
             data == Download(c.Filename)
         IN IF Sha256(data) # c.SHA256
            THEN [data |-> <<>>, info |-> <<>>, err |-> "digest mismatch"]
            ELSE [data |-> data,
                  info |-> [Name |-> c.Name, Version |-> c.Version, Arch |-> c.Arch,
                            SHA256 |-> c.SHA256],
                  err |-> Nil]

\* testArchive.Fetch(pkg)
Fetch ==
    /\ call.op = "Archive"
    /\ LET res == FetchResult(call.suites, call.holds, call.pkg)
       IN ret' = [data |-> res.data, info |-> res.info] /\ err' = res.err
    /\ call' = [call EXCEPT !.op = "Fetch"]
    /\ UNCHANGED <<report, wall>>

\* The opened archives: an ordered list of suites, and the indexes that
\* hold the packages mypkg1 and mypkg2.
FetchInit ==
    /\ \E suiteSet \in SUBSET SuiteNames \ {{}},
          with1 \in SUBSET (SuiteNames \X {"main", "universe"}),
          pkg \in {"mypkg1", "mypkg2"} :
          \E suites \in Orders(suiteSet) :
             call = [op |-> "Archive", suites |-> suites, pkg |-> pkg,
                     holds |-> [x \in SuiteNames \X {"main", "universe"} |->
                                   (IF x \in with1 THEN {"mypkg1"} ELSE {})
                                   \cup (IF x = <<"jammy", "main">> THEN {"mypkg2"} ELSE {})]]
    /\ report = UtilNewReport(<<Sep>>)
    /\ err = Nil
    /\ wall = NoWall
    /\ ret = NoResult

FetchNext == Fetch

SpecFetch == FetchInit /\ [][FetchNext]_vars

---------------------------------------------------------------------------
(* The --release value: releaseExp, parseReleaseInfo and the choice between *)
(* a release directory and a label-version reference (cmd_cut.go 57-78,     *)
(* obtainRelease). A value is the sequence of its characters.               *)

\* The longest --release value.
MaxRelease == 7

ReleaseChars == {"a", "1", "-", ".", "/"}

IsLower(c) == c = "a"
IsDigit(c) == c = "1"

\* [a-z](?:-?[a-z0-9]){2,} matches the whole of s: a letter, then at least
\* two letters or digits, each after at most one dash.
MatchesLabel(s) ==
    /\ Len(s) >= 3
    /\ IsLower(s[1])
    /\ \A i \in 2..Len(s) : IsLower(s[i]) \/ IsDigit(s[i]) \/ s[i] = "-"
    /\ s[Len(s)] # "-"
    /\ \A i \in 2..(Len(s) - 1) : s[i] = "-" => s[i + 1] # "-"
    /\ Cardinality({i \in 2..Len(s) : s[i] # "-"}) >= 2

\* [0-9]+(?:\.?[0-9])+ matches the whole of s: a digit, then at least one
\* more, each after at most one dot.
MatchesVersion(s) ==
    /\ Len(s) >= 2
    /\ IsDigit(s[1])
    /\ \A i \in 2..Len(s) : IsDigit(s[i]) \/ s[i] = "."
    /\ s[Len(s)] # "."
    /\ \A i \in 2..(Len(s) - 1) : s[i] = "." => s[i + 1] # "."

\* releaseExp.FindStringSubmatch(release): the label and the version on the
\* two sides of a dash, or no match.
releaseExp(release) ==
    LET at == {i \in 1..Len(release) :
                  /\ release[i] = "-"
                  /\ MatchesLabel(SubSeq(release, 1, i - 1))
                  /\ MatchesVersion(SubSeq(release, i + 1, Len(release)))}
    IN IF at = {} THEN <<>>
       ELSE LET i == CHOOSE i \in at : TRUE
            IN <<SubSeq(release, 1, i - 1), SubSeq(release, i + 1, Len(release))>>

\* parseReleaseInfo(release): [label, version, err]
parseReleaseInfo(release) ==
    IF releaseExp(release) = <<>>
    THEN [label |-> <<>>, version |-> <<>>, err |-> "invalid release reference"]
    ELSE [label |-> releaseExp(release)[1], version |-> releaseExp(release)[2], err |-> Nil]

\* obtainRelease, were a value that is no reference read as a directory.
obtainReleaseAsPath(releaseStr) ==
    IF \E i \in 1..Len(releaseStr) : releaseStr[i] = "/"
    THEN [from |-> "ReadRelease", dir |-> releaseStr, err |-> Nil]
    ELSE IF releaseStr = <<>>
    THEN [from |-> "readReleaseInfo", err |-> Nil]
    ELSE IF parseReleaseInfo(releaseStr).err # Nil
    THEN [from |-> "ReadRelease", dir |-> releaseStr, err |-> Nil]
    ELSE [from |-> "FetchRelease", label |-> parseReleaseInfo(releaseStr).label,
          version |-> parseReleaseInfo(releaseStr).version, err |-> Nil]

\* obtainRelease(releaseStr), as lines 57-78 of cmdCut.Execute: where the
\* release is taken from, and the error of parseReleaseInfo. What
\* setup.ReadRelease, setup.FetchRelease and readReleaseInfo return is left
\* out.
obtainRelease(releaseStr) ==
    IF \E i \in 1..Len(releaseStr) : releaseStr[i] = "/"
    THEN [from |-> "ReadRelease", dir |-> releaseStr, err |-> Nil]
    ELSE IF releaseStr = <<>>
    THEN [from |-> "readReleaseInfo", err |-> Nil]
    ELSE IF parseReleaseInfo(releaseStr).err # Nil
    THEN [from |-> "", err |-> parseReleaseInfo(releaseStr).err]
    ELSE [from |-> "FetchRelease", label |-> parseReleaseInfo(releaseStr).label,
          version |-> parseReleaseInfo(releaseStr).version, err |-> Nil]

\* obtainRelease(cmd.Release)
ObtainRelease ==
    /\ call.op = "Release"
    /\ ret' = obtainRelease(call.release)
    /\ err' = obtainRelease(call.release).err
    /\ call' = [call EXCEPT !.op = "obtainRelease"]
    /\ UNCHANGED <<report, wall>>

ReleaseInit ==
    /\ \E release \in SeqsUpTo(ReleaseChars, MaxRelease) :
          call = [op |-> "Release", release |-> release]
    /\ report = UtilNewReport(<<Sep>>)
    /\ err = Nil
    /\ wall = NoWall
    /\ ret = NoResult

ReleaseNext == ObtainRelease

SpecRelease == ReleaseInit /\ [][ReleaseNext]_vars

---------------------------------------------------------------------------
(* slicer.Report as it keeps every entry and leaves the marks to Collect    *)
(* (the variant of report.go with Mark and Collect, without globs), and the *)
(* three variants of the Report side by side.                               *)

\* NewReport
CollectNewReport(root) == [Root |-> root, Entries |-> <<>>, Marked |-> {}]

\* Report.Add: [report, err]. The path must begin with the characters of the
\* root; the rest, cleaned, is the key.
CollectReportAdd(r, slice, info) ==
    IF Len(info.Path) < Len(r.Root) \/ SubSeq(info.Path, 1, Len(r.Root)) # r.Root
    THEN [report |-> r, err |-> "outside"]
    ELSE LET rest == SubSeq(info.Path, Len(r.Root) + 1, Len(info.Path))
             relPath == Clean(<<Sep>> \o rest)
         IN IF relPath \in DOMAIN r.Entries
            THEN IF Conflicts(info, r.Entries[relPath])
                 THEN [report |-> r, err |-> "conflict"]
                 ELSE [report |-> [r EXCEPT !.Entries =
                           Put(@, relPath, AddSlice(r.Entries[relPath], slice))],
                       err |-> Nil]
            ELSE [report |-> [r EXCEPT !.Entries =
                      Put(@, relPath, NewEntry(relPath, slice, info))],
                  err |-> Nil]

CollectAdd(slice, info) ==
    LET res == CollectReportAdd(report, slice, info)
    IN /\ report' = res.report
       /\ err' = res.err
       /\ call' = [op |-> "Add", slice |-> slice, info |-> info]
       /\ UNCHANGED <<wall, ret>>

\* Report.Collect: the entries whose path is marked.
Collect ==
    /\ ret' = [p \in {q \in DOMAIN report.Entries : report.Entries[q].Path \in report.Marked} |->
                  report.Entries[p]]
    /\ err' = Nil
    /\ call' = [op |-> "Collect"]
    /\ UNCHANGED <<report, wall>>

CollectInit ==
    /\ report = CollectNewReport(RootPath)
    /\ call = [op |-> "NewReport"]
    /\ err = Nil
    /\ wall = NoWall
    /\ ret = NoResult

CollectNext ==
    \/ \E slice \in Slices, info \in Infos \cup {sampleDir} : CollectAdd(slice, info)
    \/ \E path \in MarkPaths : Mark(path)
    \/ Collect

\* Which of the variants a report is of, by its fields.
HasGlobs == "MarkedGlob" \in DOMAIN report
HasMarks == "Marked" \in DOMAIN report

ReportsInit == Init \/ PrefixInit \/ CollectInit

ReportsNext ==
    \/ HasGlobs /\ Next
    \/ ~HasMarks /\ PrefixNext
    \/ HasMarks /\ ~HasGlobs /\ CollectNext

SpecReports == ReportsInit /\ [][ReportsNext]_vars

---------------------------------------------------------------------------
(* Properties of slicer.Report *)

\* The key under which the Add just made looks its entry up.
CallRelPath == <<Sep>> \o Rel(report.Root, call.info.Path).path

\* The same key for the Add a step makes, from the state before the step.
StepRelPath == <<Sep>> \o Rel(report.Root, call'.info.Path).path

IsAddStep == call'.op = "Add" /\ ~Rel(report.Root, call'.info.Path).err

\* Whether an fsutil.Info and a stored entry differ in one of the four fields.
Differs(info, entry) ==
    ~(/\ info.Mode = entry.Mode
      /\ info.Link = entry.Link
      /\ info.Size = entry.Size
      /\ info.Hash = entry.Hash)

\* Whether path lies inside root: both rooted, and the elements of the cleaned
\* root are the first elements of the cleaned path.
Inside(root, path) ==
    LET r == CleanElems(Split(root), <<>>, TRUE)
        p == CleanElems(Split(path), <<>>, TRUE)
    IN /\ IsRooted(root) /\ IsRooted(path)
       /\ Len(p) >= Len(r)
       /\ SubSeq(p, 1, Len(r)) = r

\* C1: an Add for a path that is already in the report returns an error
\* exactly when the new mode, link, size or hash differs from the stored one,
\* and that error is the conflict error.
C1_ConflictIffDiffers ==
    [][(IsAddStep /\ StepRelPath \in DOMAIN report.Entries) =>
         /\ (err' # Nil) = Differs(call'.info, report.Entries[StepRelPath])
         /\ err' \in {Nil, "conflict"}]_vars

\* C1 witness: an Add of the stored file with another hash has been refused.
C1_Witness ==
    /\ call.op = "Add"
    /\ err = "conflict"
    /\ CallRelPath \in DOMAIN report.Entries
    /\ call.info.Hash # report.Entries[CallRelPath].Hash

\* The slices of the entry stored for a key, none when there is no entry.
SlicesOf(r, relPath) ==
    IF relPath \in DOMAIN r.Entries THEN r.Entries[relPath].Slices ELSE {}

C3_OutsideRejected ==
    (call.op = "Add" /\ ~Inside(report.Root, call.info.Path)) => err # Nil

\* C4: every entry path begins with "/" and has no ".." element.
C4_PathsRooted ==
    \A p \in DOMAIN report.Entries :
        /\ IsRooted(p)
        /\ \A i \in 1..Len(Split(p)) : Split(p)[i] # DotDot

---------------------------------------------------------------------------
(* Properties of manifestutil.Report *)

\* The key of the entry the call a step makes is about, from the state
\* before the step, and the key of the hard-link target it names.
UtilStepRel == SanitizeAbsPath(report, call'.entry.Path, IsDir(call'.entry.Mode))
UtilStepTarget == SanitizeAbsPath(report, call'.entry.Link, FALSE)

UtilCallRel == SanitizeAbsPath(report, call.entry.Path, IsDir(call.entry.Mode))

\* C5: a Mutate that succeeds on a regular file keeps the entry's sha256,
\* sets its size to the new size, sets final_sha256 to the new hash when
\* that differs from sha256, and leaves an empty final_sha256 empty when the
\* new hash is sha256.
C5_MutateFinalHash ==
    [][(/\ call'.op = "Mutate"
        /\ err' = Nil
        /\ IsRegular(report.Entries[UtilStepRel.path].Mode)) =>
         LET before == report.Entries[UtilStepRel.path]
             after == report'.Entries[UtilStepRel.path]
         IN /\ after.SHA256 = before.SHA256
            /\ after.Size = call'.entry.Size
            /\ call'.entry.SHA256 # before.SHA256 =>
                   after.FinalSHA256 = call'.entry.SHA256
            /\ (call'.entry.SHA256 = before.SHA256 /\ before.FinalSHA256 = "") =>
                   after.FinalSHA256 = ""]_vars

\* C5 witness: the file has been mutated to new content.
C5_Witness ==
    /\ call.op = "Mutate"
    /\ err = Nil
    /\ report.Entries[UtilCallRel.path].SHA256 = "h1"
    /\ report.Entries[UtilCallRel.path].FinalSHA256 = "h1_changed"
    /\ report.Entries[UtilCallRel.path].Size = 15

\* C6: a Mutate of a path outside the root, of a path that was not added,
\* or of a directory entry returns an error and leaves the report as it was.
C6_MutateRejects ==
    [][(/\ call'.op = "Mutate"
        /\ \/ UtilStepRel.err
           \/ UtilStepRel.path \notin DOMAIN report.Entries
           \/ IsDir(report.Entries[UtilStepRel.path].Mode)) =>
         (err' # Nil /\ report' = report)]_vars

\* C6 witness: a Mutate of the directory entry has been refused.
C6_Witness ==
    /\ call.op = "Mutate"
    /\ err # Nil
    /\ ~UtilCallRel.err
    /\ UtilCallRel.path \in DOMAIN report.Entries
    /\ IsDir(report.Entries[UtilCallRel.path].Mode)

\* The group ID of a path, 0 when the path has no entry.
InodeOf(r, relPath) ==
    IF relPath \in DOMAIN r.Entries THEN r.Entries[relPath].Inode ELSE 0

\* The group IDs in use.
Inodes(r) == {r.Entries[p].Inode : p \in DOMAIN r.Entries} \ {0}

\* A step that adds a hard link whose target is in the report.
IsHardLinkStep ==
    /\ call'.op = "Add"
    /\ err' = Nil
    /\ IsRegular(call'.entry.Mode)
    /\ call'.entry.Link # <<>>
    /\ ~UtilStepTarget.err
    /\ UtilStepTarget.path \in DOMAIN report.Entries

\* C7: a successful Add of a hard link to a regular file of the report
\* records the link with the target's sha256 and size and no link, and the
\* two share a non-zero group ID: the target's if it has one, and otherwise
\* the number of groups so far plus one. Any other step leaves every group
\* ID as it was, and creates entries with group ID 0.
C7_HardLinkGroups ==
    [][/\ (IsHardLinkStep /\ IsRegular(report.Entries[UtilStepTarget.path].Mode)) =>
            LET target == report.Entries[UtilStepTarget.path]
                link == report'.Entries[UtilStepRel.path]
            IN /\ link.SHA256 = target.SHA256
               /\ link.Size = target.Size
               /\ link.Link = <<>>
               /\ link.Inode # 0
               /\ link.Inode = report'.Entries[UtilStepTarget.path].Inode
               /\ link.Inode = IF target.Inode # 0 THEN target.Inode
                               ELSE Cardinality(Inodes(report)) + 1
       /\ \A p \in DOMAIN report'.Entries :
            InodeOf(report', p) # InodeOf(report, p) =>
                /\ IsHardLinkStep
                /\ p \in {UtilStepRel.path, UtilStepTarget.path}
                /\ InodeOf(report, p) = 0
       /\ Inodes(report') = 1..Cardinality(Inodes(report'))]_vars

\* C7 witness: two hard-link groups, numbered 1 and 2.
C7_Witness ==
    /\ call.op = "Add"
    /\ err = Nil
    /\ call.entry.Link # <<>>
    /\ IsRegular(call.entry.Mode)
    /\ report.Entries[UtilCallRel.path].Inode = 2
    /\ Inodes(report) = {1, 2}

---------------------------------------------------------------------------
(* Properties of manifestutil.Write *)

\* Write has returned without error.
Written == call.op = "Write" /\ err = Nil

\* Write has returned an error.
WriteFailed == call.op = "Write" /\ err # Nil

\* The paths of a hard-link group.
GroupPaths(r, id) == {p \in DOMAIN r.Entries : r.Entries[p].Inode = id}

GroupsDense(r) ==
    /\ Inodes(r) = 1..Cardinality(Inodes(r))
    /\ \A id \in Inodes(r) : Cardinality(GroupPaths(r, id)) >= 2

\* C8: when Write succeeds, the non-zero group IDs of the report are exactly
\* 1..N and every group has at least two entries.
C8_GroupsDense == Written => GroupsDense(report)

\* C8 witness: Write has refused a report whose only group has the ID 2.
C8_Witness ==
    /\ WriteFailed
    /\ Inodes(report) = {2}
    /\ err = InvalidManifest("cannot find hard link id")

\* C9 as stated: when Write succeeds, two entries of one group have the same
\* mode, sha256, size, link and final_sha256.
C9_Original ==
    Written =>
        \A p, q \in DOMAIN report.Entries :
            (report.Entries[p].Inode # 0 /\
             report.Entries[p].Inode = report.Entries[q].Inode) =>
                /\ report.Entries[p].Mode = report.Entries[q].Mode
                /\ report.Entries[p].SHA256 = report.Entries[q].SHA256
                /\ report.Entries[p].Size = report.Entries[q].Size
                /\ report.Entries[p].Link = report.Entries[q].Link
                /\ report.Entries[p].FinalSHA256 = report.Entries[q].FinalSHA256

\* C9 amended: when Write succeeds, two entries of one group have the same
\* permission bits and sticky bit, sha256, size, link and final_sha256.
C9_GroupsAgree ==
    Written =>
        \A p, q \in DOMAIN report.Entries :
            (report.Entries[p].Inode # 0 /\
             report.Entries[p].Inode = report.Entries[q].Inode) =>
                /\ report.Entries[p].Mode.perm = report.Entries[q].Mode.perm
                /\ (ModeSticky \in report.Entries[p].Mode.bits) =
                       (ModeSticky \in report.Entries[q].Mode.bits)
                /\ report.Entries[p].SHA256 = report.Entries[q].SHA256
                /\ report.Entries[p].Size = report.Entries[q].Size
                /\ report.Entries[p].Link = report.Entries[q].Link
                /\ report.Entries[p].FinalSHA256 = report.Entries[q].FinalSHA256

\* C9 witness: Write has refused a group whose two entries differ in size
\* only.
C9_Witness ==
    /\ WriteFailed
    /\ err = InvalidManifest("hard linked paths have diverging contents")
    /\ \E p, q \in DOMAIN report.Entries :
          /\ report.Entries[p].Inode = report.Entries[q].Inode
          /\ report.Entries[p].Size # report.Entries[q].Size
          /\ [report.Entries[p] EXCEPT !.Size = 0, !.Path = <<>>] =
                 [report.Entries[q] EXCEPT !.Size = 0, !.Path = <<>>]

\* C10: when Write succeeds, every slice of every entry is one of the
\* selection, and the package of every selected slice is one of the
\* packages.
C10_SlicesSelected ==
    Written =>
        /\ \A p \in DOMAIN report.Entries : \A slice \in report.Entries[p].Slices :
              \E i \in 1..Len(call.Selection) : call.Selection[i] = slice
        /\ \A i \in 1..Len(call.Selection) :
              \E j \in 1..Len(call.PackageInfo) :
                  call.PackageInfo[j].Name = call.Selection[i].Package

\* C10 witness: Write has refused an entry with a slice that is not selected.
C10_Witness ==
    /\ WriteFailed
    /\ err = InvalidManifest("refers to missing slice")
    /\ \E p \in DOMAIN report.Entries :
          otherSlice \in report.Entries[p].Slices
    /\ \A i \in 1..Len(call.Selection) : call.Selection[i] # otherSlice

\* Whether a directory or symlink entry carries a sha256, a final_sha256 or
\* a size, or a symlink entry no link.
BadDirOrSymlink(entry) ==
    \/ /\ ModeDir \in entry.Mode.bits \/ ModeSymlink \in entry.Mode.bits
       /\ entry.SHA256 # "" \/ entry.FinalSHA256 # "" \/ entry.Size # 0
    \/ ModeSymlink \in entry.Mode.bits /\ entry.Link = <<>>

\* An error of the validation Write does before it emits anything.
IsValidationError(e) == e \notin {Nil, "write failed"}

WriteMessages ==
    { "package name not set", "package missing arch", "package missing sha256",
      "package missing version", "slice refers to missing package",
      "link set for directory", "sha256 set for directory",
      "final_sha256 set for directory", "size set for directory",
      "link not set for symlink", "sha256 set for symlink",
      "final_sha256 set for symlink", "size set for symlink",
      "unsupported file type", "slices is empty", "refers to missing slice",
      "cannot find hard link id", "hard link group has only one path",
      "hard linked paths have diverging contents" }

\* An invalid-manifest error of the writer.
IsInvalidManifest(e) ==
    \E m \in WriteMessages : e = "internal error: invalid manifest: " \o m

\* The entries of a hard-link group agree on what the manifest records.
GroupsAgree(r) ==
    \A p, q \in DOMAIN r.Entries :
        (r.Entries[p].Inode # 0 /\ r.Entries[p].Inode = r.Entries[q].Inode) =>
            /\ r.Entries[p].Mode.perm = r.Entries[q].Mode.perm
            /\ (ModeSticky \in r.Entries[p].Mode.bits) = (ModeSticky \in r.Entries[q].Mode.bits)
            /\ r.Entries[p].SHA256 = r.Entries[q].SHA256
            /\ r.Entries[p].Size = r.Entries[q].Size
            /\ r.Entries[p].Link = r.Entries[q].Link
            /\ r.Entries[p].FinalSHA256 = r.Entries[q].FinalSHA256

\* The packages, the selection and the report given to Write are valid:
\* the packages are complete, the slices selected are of these packages,
\* every entry is a regular file, a directory or a symlink with the fields
\* of its type and with slices, all of them selected, and the hard-link
\* groups are dense and agree.
ValidOptions ==
    /\ \A i \in 1..Len(call.PackageInfo) :
          /\ call.PackageInfo[i].Name # "" /\ call.PackageInfo[i].Arch # ""
          /\ call.PackageInfo[i].SHA256 # "" /\ call.PackageInfo[i].Version # ""
    /\ \A i \in 1..Len(call.Selection) :
          \E j \in 1..Len(call.PackageInfo) :
              call.PackageInfo[j].Name = call.Selection[i].Package
    /\ \A p \in DOMAIN report.Entries :
          /\ report.Entries[p].Mode.bits \cap ModeType \in {{}, {ModeDir}, {ModeSymlink}}
          /\ ~BadDirOrSymlink(report.Entries[p])
          /\ ModeDir \in report.Entries[p].Mode.bits => report.Entries[p].Link = <<>>
          /\ report.Entries[p].Slices # {}
          /\ \A slice \in report.Entries[p].Slices :
                \E i \in 1..Len(call.Selection) : call.Selection[i] = slice
    /\ GroupsDense(report)
    /\ GroupsAgree(report)

\* C17 as stated: Write never returns an invalid-manifest error.
C17_Original == call.op = "Write" => ~IsInvalidManifest(err)

\* C17 amended: Write returns an invalid-manifest error exactly when the
\* packages, the selection or the report it is given are not valid, and then
\* it emits nothing; given valid ones it never returns such an error.
C17_InvalidOnlyIfInvalid ==
    call.op = "Write" =>
        /\ IsInvalidManifest(err) = ~ValidOptions
        /\ IsInvalidManifest(err) => wall = NoWall

\* C17 witness: Write has refused a package without arch with an
\* invalid-manifest error.
C17_Witness ==
    /\ WriteFailed
    /\ err = "internal error: invalid manifest: package missing arch"
    /\ \E i \in 1..Len(call.PackageInfo) : call.PackageInfo[i].Arch = ""
    /\ wall = NoWall

\* The elements of a list.
Range(list) == {list[i] : i \in 1..Len(list)}

\* The number of elements of a sequence that satisfy a test.
Count(recs, test(_)) == Cardinality({i \in 1..Len(recs) : test(recs[i])})

\* The content and path records among recs are those of the report r: one
\* content record for each slice of each entry, one path record for each
\* entry, no other, and each path record lists, in ascending order, the
\* slices of the content records of its path.
ReportRecordsExact(recs, r) ==
    /\ \A p \in DOMAIN r.Entries :
          /\ Count(recs, LAMBDA rec : rec.kind = "path" /\ rec.path = p) = 1
          /\ \A slice \in r.Entries[p].Slices :
                Count(recs, LAMBDA rec : /\ rec.kind = "content" /\ rec.path = p
                                         /\ rec.slice = String(slice)) = 1
    /\ \A i \in 1..Len(recs) :
          /\ recs[i].kind = "content" =>
                /\ recs[i].path \in DOMAIN r.Entries
                /\ \E slice \in r.Entries[recs[i].path].Slices :
                      String(slice) = recs[i].slice
          /\ recs[i].kind = "path" =>
                /\ recs[i].path \in DOMAIN r.Entries
                /\ \A j, k \in 1..Len(recs[i].slices) :
                      j < k => NameRank(recs[i].slices[j]) < NameRank(recs[i].slices[k])
                /\ Range(recs[i].slices) =
                      {recs[j].slice : j \in {k \in 1..Len(recs) :
                          recs[k].kind = "content" /\ recs[k].path = recs[i].path}}

---------------------------------------------------------------------------
(* Properties of manifest.ReadManifest *)

\* ReadManifest has returned.
ReadDone == call.op = "ReadManifest"

\* The records of a kind in the wall, which follow its header.
WallKind(kind) == {wall[i] : i \in {j \in 2..Len(wall) : wall[j].kind = kind}}

\* The package a slice name <pkg>_<slice> names.
SlicePackage(name) ==
    CASE name = "base-files_my-slice" -> "base-files"
      [] name = "base-files_other-slice" -> "base-files"
      [] name = "other_my-slice" -> "other"

\* The slices of the content records that reference a path.
ContentSlices(path) == {c.slice : c \in {d \in WallKind("content") : d.path = path}}

\* The cross-checks of the reader, one by one.
ContentSlicesExist ==
    \A c \in WallKind("content") : \E sl \in WallKind("slice") : sl.name = c.slice

ContentPathsExist ==
    \A c \in WallKind("content") : \E pa \in WallKind("path") : pa.path = c.path

PathsHaveContent ==
    \A pa \in WallKind("path") : \E c \in WallKind("content") : c.path = pa.path

PathSlicesMatch ==
    \A pa \in WallKind("path") : Range(pa.slices) = ContentSlices(pa.path)

SlicePackagesExist ==
    \A n \in {sl.name : sl \in WallKind("slice")} \cup {c.slice : c \in WallKind("content")} :
        \E pk \in WallKind("package") : pk.name = SlicePackage(n)

\* The wall satisfies all cross-checks.
CrossChecked ==
    /\ wall # NoWall
    /\ ContentSlicesExist /\ ContentPathsExist /\ PathsHaveContent
    /\ PathSlicesMatch /\ SlicePackagesExist

\* The error Validate makes of a nil result: no check has failed.
NilWrapped == "invalid manifest: %!s(<nil>)"

\* The read has failed on one of the checks of Validate, with an invalid
\* manifest error.
FailedOnCheck == err \in {"invalid manifest: ", "invalid manifest: TODO"}

\* C12: reading a wall that satisfies all cross-checks, as any wall that Write
\* has emitted does, succeeds and returns the package, slice, path and
\* content records of the wall.
C12_RoundTrip ==
    (ReadDone /\ CrossChecked) =>
        /\ err = Nil
        /\ ret # NoResult
        /\ {<<x.Slice, x.Path>> : x \in Range(ret[1].Contents)}
               = {<<c.slice, c.path>> : c \in WallKind("content")}
        /\ {<<x.Path, x.Mode, x.Slices, x.Hash, x.FinalHash, x.Size, x.Link>> :
                x \in Range(ret[1].Paths)}
               = {<<pa.path, pa.mode, pa.slices, pa.sha256, pa.final_sha256, pa.size, pa.link>> :
                    pa \in WallKind("path")}
        /\ {<<x.Name, x.Version, x.Digest, x.Arch>> : x \in Range(ret[1].Packages)}
               = {<<pk.name, pk.version, pk.sha256, pk.arch>> : pk \in WallKind("package")}
        /\ {x.Name : x \in Range(ret[1].Slices)} = {sl.name : sl \in WallKind("slice")}

\* C13: reading a wall with a content record whose slice has no slice record
\* fails on a check, with an invalid manifest error.
C13_MissingSlice ==
    (ReadDone /\ ~ContentSlicesExist) => (FailedOnCheck /\ ret = NoResult)

\* C13 witness: a wall whose only fault is a content record of a slice
\* without slice record has been refused.
C13_Witness ==
    /\ ReadDone
    /\ ~ContentSlicesExist
    /\ ContentPathsExist /\ PathsHaveContent /\ SlicePackagesExist
    /\ \A pa \in WallKind("path") :
          pa.slices = SortNames(ContentSlices(pa.path))
    /\ err = "invalid manifest: TODO"

\* C14: when the other cross-checks hold, the read succeeds exactly when the
\* slices of every path record, as a set, are the slices of the content
\* records of its path, in whatever order they are listed.
C14_SetEquality ==
    (/\ ReadDone /\ wall # NoWall
     /\ ContentSlicesExist /\ ContentPathsExist /\ PathsHaveContent /\ SlicePackagesExist)
        => ((err = Nil) = PathSlicesMatch)

---------------------------------------------------------------------------
(* Properties of the manifest path *)

\* A path <dir>/**, and its <dir>.
IsDirGlob(path) ==
    Len(path) >= 3 /\ SubSeq(path, Len(path) - 2, Len(path)) = <<Sep, "*", "*">>

GlobDir(path) == SubSeq(path, 1, Len(path) - 3)

\* The manifest paths of the selection have been computed.
PathsFound == call.op \in {"FindPaths", "generateDB", "GetManifestPath"}

\* C19: for every path <dir>/** that a selected slice tags generate:
\* manifest, the manifest path is <dir>/manifest.wall, and every slice that
\* tags the path is among the slices of that manifest path.
C19_ManifestPath ==
    PathsFound =>
        \A i \in 1..Len(call.slices) : \A path \in ManifestGlobs(call.slices[i]) :
            IsDirGlob(path) =>
                /\ GlobDir(path) \o <<Sep, "manifest.wall">> \in DOMAIN ret
                /\ \A j \in 1..Len(call.slices) :
                      path \in ManifestGlobs(call.slices[j]) =>
                          call.slices[j] \in Range(ret[GlobDir(path) \o <<Sep, "manifest.wall">>])

---------------------------------------------------------------------------
(* Properties of selectPkgArchives *)

\* selectPkgArchives has returned a mapping.
ArchivesSelected ==
    call.op \in {"selectPkgArchives", "selectPkgArchivesRelease"} /\ err = Nil

\* The packages that have a selected slice.
SelectedPackages == {call.slices[i].Package : i \in 1..Len(call.slices)}

\* The opened archives of non-negative priority that hold a package.
Eligible(pkg) ==
    {a \in DOMAIN call.archives :
        call.release.Archives[a].Priority >= 0 /\ pkg \in call.archives[a]}

\* C20: in the mapping selectPkgArchives returns, a package with a selected
\* slice that pins an archive has that archive and no other; one that pins
\* none has the archive of the highest priority among the opened archives of
\* non-negative priority that hold it, and never an archive of negative
\* priority.
C20_ArchiveOfPackage ==
    ArchivesSelected =>
        \A pkg \in SelectedPackages :
            IF call.release.Packages[pkg].Archive # ""
            THEN /\ pkg \in DOMAIN ret => ret[pkg] = call.release.Packages[pkg].Archive
                 /\ (/\ call.release.Packages[pkg].Archive \in DOMAIN call.archives
                     /\ pkg \in call.archives[call.release.Packages[pkg].Archive])
                        => pkg \in DOMAIN ret
            ELSE /\ pkg \in DOMAIN ret => call.release.Archives[ret[pkg]].Priority >= 0
                 /\ Eligible(pkg) # {} =>
                       /\ pkg \in DOMAIN ret
                       /\ ret[pkg] \in Eligible(pkg)
                       /\ \A a \in Eligible(pkg) :
                             call.release.Archives[a].Priority
                                 <= call.release.Archives[ret[pkg]].Priority

---------------------------------------------------------------------------
(* Properties of cmdCut.Execute *)

\* setup.Select was called and returned an error.
SelectionFailed ==
    /\ call.op = "Execute"
    /\ <<"Select">> \in Range(call.events)
    /\ call.selectErr # Nil

\* C21: in the cut command a selection error ends the command with that
\* error before any archive is opened and before slicer.Run fetches or
\* extracts any package.
C21_SelectionAborts ==
    SelectionFailed =>
        /\ call.pc = "done"
        /\ err = call.selectErr
        /\ call.events = << <<"Select">> >>
        /\ call.archives = <<>>
        /\ call.visited = {}

C21_Witness ==
    /\ SelectionFailed
    /\ call.pc = "done"
    /\ err = "essential slice not found"
    /\ \E a \in ArchiveNames : call.opens[a] = Nil

---------------------------------------------------------------------------
(* Properties of check-cohesion *)

\* check-cohesion has printed its report.
CohesionDone == call.op = "check-cohesion" /\ err = Nil

\* What the packages of the opened archives ship: the archive, the package
\* and the tar header, for the headers whose path is recorded.
Shipped ==
    UNION { { [archive |-> x[1], pkg |-> x[2], header |-> call.tars[x[2]][i]] :
                 i \in {k \in 1..Len(call.tars[x[2]]) : OwnedPath(call.tars[x[2]][k]).ok} } :
            x \in {y \in CohesionArchives \X CohesionPackages :
                      call.opens[y[1]] = Nil /\ y[2] \in call.holds[y[1]]} }

ShippedAt(path) == {s \in Shipped : OwnedPath(s.header).path = path}

ShippedPaths == {OwnedPath(s.header).path : s \in Shipped}

IsDirHeader(header) == header.Name[Len(header.Name)] = "/"

\* C22: when one package ships a path as a symlink and another package ships
\* it as a directory, the report of check-cohesion holds the path with two
\* ownerships, one with the link target and one with an empty link, in
\* whatever order the archives and the packages were processed.
C22_SymlinkAndDirectory ==
    CohesionDone =>
        \A path \in ShippedPaths :
            \A s1, s2 \in ShippedAt(path) :
                (/\ s1.pkg # s2.pkg
                 /\ s1.header.Linkname # <<>>
                 /\ s2.header.Linkname = <<>> /\ IsDirHeader(s2.header))
                => /\ path \in DOMAIN ret
                   /\ Len(ret[path]) = 2
                   /\ {ret[path][i].Link : i \in 1..2} = {s1.header.Linkname, <<>>}

\* The paths that are shipped, and only without a link name.
PlainPaths == {path \in ShippedPaths : \A s \in ShippedAt(path) : s.header.Linkname = <<>>}

ModesAt(path) == {s.header.Mode : s \in ShippedAt(path)}

\* The (archive, package) pairs an ownership lists.
Owners(o) ==
    UNION {{<<a, o.Pkgs[a][k]>> : k \in 1..Len(o.Pkgs[a])} : a \in DOMAIN o.Pkgs}

\* C27: a path shipped only by entries without link name is reported by
\* check-cohesion exactly when at least two modes occur for it; it then has
\* one ownership for each mode, and the (archive, package) pairs that ship
\* it are each listed in the ownership of their mode and in no other, in
\* whatever order the archives and the packages were processed.
C27_OneOwnershipPerMode ==
    CohesionDone =>
        \A path \in PlainPaths :
            /\ path \in DOMAIN ret <=> Cardinality(ModesAt(path)) >= 2
            /\ path \in DOMAIN ret =>
                  /\ Len(ret[path]) = Cardinality(ModesAt(path))
                  /\ {ret[path][i].Mode : i \in 1..Len(ret[path])} = ModesAt(path)
                  /\ \A i \in 1..Len(ret[path]) :
                        /\ ret[path][i].Link = <<>>
                        /\ Owners(ret[path][i])
                           = {<<s.archive, s.pkg>> :
                                 s \in {t \in ShippedAt(path) :
                                           t.header.Mode = ret[path][i].Mode}}

C27_Witness ==
    /\ CohesionDone
    /\ \E path \in PlainPaths :
          /\ path \in DOMAIN ret
          /\ \E i \in 1..Len(ret[path]) : Cardinality(DOMAIN ret[path][i].Pkgs) = 2

\* Whether an element of the path is "..".
HasParentReference(path) == \E i \in 1..Len(Split(path)) : Split(path)[i] = DotDot

\* C26: sanitizeTarPath accepts a path only if it begins with "./" and names
\* something after it, returns the path without its leading ".", and
\* rejects every empty path and every path with a ".." element.
C26_SanitizeTarPath ==
    call.op = "sanitizeTarPath" =>
        /\ ret.ok => /\ Len(call.path) >= 3
                     /\ SubSeq(call.path, 1, 2) = <<".", "/">>
                     /\ ret.path = Tail(call.path)
                     /\ Head(ret.path) = Sep
        /\ call.path = <<>> => ~ret.ok
        /\ HasParentReference(call.path) => ~ret.ok

---------------------------------------------------------------------------
(* Properties of the archive client *)

\* The configured suites that hold the package fetched, in some component.
HoldingSuites ==
    {call.suites[i] : i \in {k \in 1..Len(call.suites) :
        \E c \in 1..Len(Components) :
            call.pkg \in call.holds[<<call.suites[k], Components[c]>>]}}

\* The suite of highest priority among them, and the first component in
\* which it holds the package.
BestSuite ==
    CHOOSE s \in HoldingSuites : \A t \in HoldingSuites : SuitePriority(t) <= SuitePriority(s)

BestComponent ==
    Components[CHOOSE c \in 1..Len(Components) :
        /\ call.pkg \in call.holds[<<BestSuite, Components[c]>>]
        /\ \A d \in 1..(c - 1) : call.pkg \notin call.holds[<<BestSuite, Components[d]>>]]

\* C23: Fetch of a package that several configured suites hold returns the
\* candidate of the suite of highest priority (jammy-security among jammy,
\* jammy-security and jammy-updates) and, within that suite, of the
\* component listed first; the PackageInfo and the bytes returned are those
\* of that one candidate, and a package held by one suite only comes from it.
C23_FetchHighestSuite ==
    (call.op = "Fetch" /\ HoldingSuites # {}) =>
        /\ err = Nil
        /\ ret.data = PackageData(BestSuite, BestComponent, call.pkg)
        /\ ret.info = [Name |-> call.pkg, Version |-> <<"1.1", BestSuite, BestComponent>>,
                       Arch |-> "amd64", SHA256 |-> Sha256(ret.data)]
        /\ "jammy-security" \in HoldingSuites => BestSuite = "jammy-security"
        /\ \A s \in SuiteNames : HoldingSuites = {s} => BestSuite = s

C23_Witness ==
    /\ call.op = "Fetch"
    /\ call.suites = <<"jammy", "jammy-security", "jammy-updates">>
    /\ HoldingSuites = SuiteNames
    /\ call.pkg \in call.holds[<<"jammy", "main">>]
    /\ call.pkg \notin call.holds[<<"jammy-security", "main">>]
    /\ ret.info.Version = <<"1.1", "jammy-security", "universe">>

---------------------------------------------------------------------------
(* Properties of the --release value *)

\* The value is a label, a dash and a version, as releaseExp has them.
IsReference(release) ==
    \E i \in 1..Len(release) :
        /\ release[i] = "-"
        /\ MatchesLabel(SubSeq(release, 1, i - 1))
        /\ MatchesVersion(SubSeq(release, i + 1, Len(release)))

HasSlash(release) == Sep \in Range(release)

\* C24 as stated: a value that matches the grammar is taken as a
\* label-version reference, any other value as the path of a release
\* directory, and none is rejected for not matching.
C24_Original ==
    call.op = "obtainRelease" =>
        /\ IsReference(call.release) => ret.from = "FetchRelease"
        /\ ~IsReference(call.release) =>
              err = Nil /\ ret.from = "ReadRelease" /\ ret.dir = call.release

\* C24: a value with a "/" is the path of a release directory; a value
\* without "/" that matches the grammar is the label-version reference of
\* its two parts; the empty value is looked up in /etc/lsb-release; any
\* other value is rejected as an invalid release reference. A version needs
\* two digits but no dot.
C24_ReleaseValue ==
    call.op = "obtainRelease" =>
        /\ HasSlash(call.release) =>
              err = Nil /\ ret.from = "ReadRelease" /\ ret.dir = call.release
        /\ IsReference(call.release) =>
              /\ ~HasSlash(call.release)
              /\ err = Nil /\ ret.from = "FetchRelease"
              /\ ret.label \o <<"-">> \o ret.version = call.release
              /\ Sep \notin Range(ret.label) /\ "-" \notin Range(ret.version)
        /\ call.release = <<>> => err = Nil /\ ret.from = "readReleaseInfo"
        /\ (~HasSlash(call.release) /\ ~IsReference(call.release) /\ call.release # <<>>) =>
              err = "invalid release reference" /\ ret.from = ""
        /\ call.release = <<"a", "a", "a", "-", "1", "1">> => ret.from = "FetchRelease"

C24_Witness ==
    /\ call.op = "obtainRelease"
    /\ call.release = <<"a", "-", "a", "1", "-", "1", ".">>
    /\ err = "invalid release reference"

\* A package that no opened archive holds or, if it pins an archive, whose
\* archive was not opened or does not hold it.
Unresolved(pkg) ==
    IF pkg.Archive = ""
    THEN \A a \in DOMAIN call.archives : pkg.Name \notin call.archives[a]
    ELSE ~Exists(call.archives, pkg.Archive, pkg.Name)

\* C25: selectPkgArchives fails and returns no mapping when a package with
\* a selected slice is held by no opened archive, or pins an archive that
\* was not opened or that does not hold it.
C25_SelectionFails ==
    (/\ call.op \in {"selectPkgArchives", "selectPkgArchivesRelease"}
     /\ \E i \in 1..Len(call.slices) :
           Unresolved(call.release.Packages[call.slices[i].Package]))
    => err # Nil /\ ret = NoResult

---------------------------------------------------------------------------
(* Properties of the three variants of slicer.Report *)

\* The path was given to Mark, cleaned, or matches a glob given to MarkGlob.
WasMarked(r, relPath) ==
    \/ relPath \in r.Marked
    \/ \E i \in 1..Len(r.MarkedGlob) : GlobPath(r.MarkedGlob[i], relPath)

C29_FailedAddKeepsReport ==
    [][call'.op = "Add" =>
          /\ err' # Nil => report' = report
          /\ \A p \in DOMAIN report.Entries :
                /\ p \in DOMAIN report'.Entries
                /\ report'.Entries[p].Mode = report.Entries[p].Mode
                /\ report'.Entries[p].Link = report.Entries[p].Link
                /\ report'.Entries[p].Size = report.Entries[p].Size
                /\ report'.Entries[p].Hash = report.Entries[p].Hash
                /\ report.Entries[p].Slices \subseteq report'.Entries[p].Slices
      ]_vars

C29_Witness ==
    /\ call.op = "Add"
    /\ err = "conflict"
    /\ HasGlobs
    /\ \E p \in DOMAIN report.Entries :
          /\ report.Entries[p].Slices = Slices
          /\ report.Entries[p].Hash # call.info.Hash

\* The slices of the call in their other orders.
SliceOrders ==
    {slices \in SeqsOfLen(Range(call.slices), Len(call.slices)) :
        Range(slices) = Range(call.slices)}

\* C30: the mapping selectPkgArchives returns is the same for every order
\* in which the archives of the release are iterated (and, in the later
\* form, sorted) and for every order of the slices of the selection: any
\* other run on the same archives, release and selection gives the mapping
\* this run gave.
C30_OrderIndependent ==
    /\ call.op = "selectPkgArchives" =>
          \A order \in Orders(DOMAIN call.release.Archives), slices \in SliceOrders :
              selectPkgArchives(call.archives,
                                [Release |-> call.release, Slices |-> slices],
                                order).pkgArchives = ret
    /\ call.op = "selectPkgArchivesRelease" =>
          \A sorted \in SortedArchives(call.release) :
              selectPkgArchivesRelease(call.archives, call.release, sorted) = ret

C30_Witness ==
    /\ call.op = "selectPkgArchives"
    /\ err = Nil
    /\ Len(call.slices) = 2
    /\ DOMAIN ret = PackageNames
    /\ \A pkg \in PackageNames : Cardinality({a \in DOMAIN call.archives : pkg \in call.archives[a]}) >= 2
    /\ ret["base-files"] # ret["other"]

====
